---- MODULE Spec2Model ----
(***************************************************************************)
(* Wiggleby: an ASCII-art cat printed in a cat colour pattern.            *)
(*                                                                         *)
(* A text is a sequence of one-character strings.  A rendered text is a   *)
(* sequence whose elements are either one-character strings or whole      *)
(* escape sequences: "ESC[38;5;<n>m" (a colour code, ESC standing for the  *)
(* byte 0x1b) and "ESC[0m" (RESET).  The blank braille character U+2800    *)
(* is written "U+2800".                                                    *)
(*                                                                         *)
(* One run of the program is one call: Init draws the text the call is    *)
(* given, and each action is one entry point of main.py applied to it.    *)
(***************************************************************************)
EXTENDS Integers, Sequences, FiniteSets, TLC

VARIABLES
    CAT_COLORS,   \* the module-level colour table (a dict: name -> code)
    content,      \* the text handed to the pattern function / read from the asset
    pc,           \* "start" before the call, "done" after it
    call,         \* what was called: [op |-> ..., args |-> ...]
    picked,       \* the (name, function) pair get_random_pattern returned, or NoPick
    result,       \* what the pattern function returned: [status, out]
    stdout,       \* the arguments of the print() calls, in order
    stderr,       \* what was written to sys.stderr, in order
    exit_status   \* <<>> while the process has not exited, else <<status>>

vars == <<CAT_COLORS, content, pc, call, picked, result, stdout, stderr, exit_status>>

----------------------------------------------------------------------------
(* Bounds of the inputs.                                                   *)

\* Every text of at most MaxLen characters over Alphabet is an input.
MaxLen == 3

\* The command line holds at most MaxFlags arguments.
MaxFlags == 2

\* The colour names pattern functions are bound to; "purple" is not a key
\* of CAT_COLORS.
UnknownColor == "purple"
ParamColors == {"orange", "white", UnknownColor}
SmokeColors == {"black", "gray", "blue_gray", "orange", UnknownColor}

BlankBraille == "U+2800"
Alphabet == {"M", " ", "\t", "\n", "\r", BlankBraille}

----------------------------------------------------------------------------
(* The colour table.                                                       *)

RESET == "ESC[0m"

_color(code) == "ESC[38;5;" \o ToString(code) \o "m"

\* The table with light_gray given silver's number.
ColorNumberReused ==
    [ black |-> 232, white |-> 255, orange |-> 208, ginger |-> 166,
      cream |-> 223, brown |-> 130, chocolate |-> 94, gray |-> 245,
      blue_gray |-> 67, lilac |-> 139, cinnamon |-> 137, fawn |-> 180,
      silver |-> 250, dark_orange |-> 202, light_gray |-> 250,
      dark_gray |-> 239, golden |-> 178, auburn |-> 124,
      forest_green |-> 34, pink_red |-> 204 ]

\* The 256-colour number each name is built from.
ColorNumber ==
    [ black |-> 232, white |-> 255, orange |-> 208, ginger |-> 166,
      cream |-> 223, brown |-> 130, chocolate |-> 94, gray |-> 245,
      blue_gray |-> 67, lilac |-> 139, cinnamon |-> 137, fawn |-> 180,
      silver |-> 250, dark_orange |-> 202, light_gray |-> 249,
      dark_gray |-> 239, golden |-> 178, auburn |-> 124,
      forest_green |-> 34, pink_red |-> 204 ]

\* CAT_COLORS as the module builds it at import.
CatColorTable == [name \in DOMAIN ColorNumber |-> _color(ColorNumber[name])]

----------------------------------------------------------------------------
(* str methods.                                                            *)

\* The characters of Alphabet for which str.isspace() is true.
StrWhitespace == {" ", "\t", "\n", "\r"}

\* The positions of the separator in s, in increasing order.
SeparatorPositions(s, sep) ==
    LET at == {k \in 1..Len(s) : s[k] = sep}
    IN  [n \in 1..Cardinality(at) |->
            CHOOSE k \in at : Cardinality({m \in at : m < k}) = n - 1]

\* str.split(sep): the runs of s between the separators, one more than there
\* are separators.
SplitOn(s, sep) ==
    LET at == SeparatorPositions(s, sep)
        n == Len(at)
    IN  [i \in 1..(n + 1) |->
            SubSeq(s, IF i = 1 THEN 1 ELSE at[i - 1] + 1,
                      IF i = n + 1 THEN Len(s) ELSE at[i] - 1)]

\* content.splitlines() in place of content.split("\n"): no line for a
\* final newline, no line at all for the empty text.
splitlines(s) ==
    LET parts == SplitOn(s, "\n")
    IN  IF Len(parts[Len(parts)]) = 0 THEN SubSeq(parts, 1, Len(parts) - 1)
        ELSE parts

\* content.split("\n"): the lines between the newlines; never empty.
split(s) == SplitOn(s, "\n")

\* The concatenation of parts[lo..hi] with sep between them.
RECURSIVE JoinRange(_, _, _, _)
JoinRange(parts, lo, hi, sep) ==
    IF lo > hi THEN <<>>
    ELSE IF lo = hi THEN parts[lo]
    ELSE LET mid == (lo + hi) \div 2
         IN  JoinRange(parts, lo, mid, sep) \o sep \o JoinRange(parts, mid + 1, hi, sep)

\* "\n".join(result)
join(lines) == JoinRange(lines, 1, Len(lines), <<"\n">>)

\* len(line) - len(line.lstrip()): the number of leading whitespace characters.
LeadingSpaces(line) ==
    CHOOSE n \in 0..Len(line) :
        /\ \A k \in 1..n : line[k] \in StrWhitespace
        /\ n = Len(line) \/ line[n + 1] \notin StrWhitespace

\* not line, in place of not line.strip(): the line is empty.
IsEmptyLine(line) == line = <<>>

\* not line.strip(): the line is empty or all whitespace.
IsBlankLine(line) == \A k \in 1..Len(line) : line[k] \in StrWhitespace

abs(x) == IF x < 0 THEN -x ELSE x

----------------------------------------------------------------------------
(* Rendering.  A pattern function builds its output from pieces: a piece  *)
(* is a run of characters, either passed through (color = NoColor) or     *)
(* formatted as f"{CAT_COLORS[color]}{text}{RESET}".  Formatting a piece   *)
(* whose colour is not a key of CAT_COLORS raises KeyError, and the call   *)
(* returns nothing.                                                        *)

NoColor == "<none>"

Plain(text) == [color |-> NoColor, text |-> text]
Painted(color, text) == [color |-> color, text |-> text]

\* f"{CAT_COLORS[color]}{text}" with the RESET forgotten
FormatNoReset(piece) ==
    IF piece.color = NoColor THEN piece.text
    ELSE <<CAT_COLORS[piece.color]>> \o piece.text

\* f"{RESET}{text}{CAT_COLORS[color]}": the two codes in each other's place
FormatResetFirst(piece) ==
    IF piece.color = NoColor THEN piece.text
    ELSE <<RESET>> \o piece.text \o <<CAT_COLORS[piece.color]>>

\* f"{CAT_COLORS[color]}{text}{RESET}", or the text itself
Format(piece) ==
    IF piece.color = NoColor THEN piece.text
    ELSE <<CAT_COLORS[piece.color]>> \o piece.text \o <<RESET>>

\* colored_line after the pieces of one line were appended to it
Concat(pieces) ==
    JoinRange([k \in 1..Len(pieces) |-> Format(pieces[k])], 1, Len(pieces), <<>>)

RaisesKeyError(pieces) ==
    \E k \in 1..Len(pieces) :
        pieces[k].color # NoColor /\ pieces[k].color \notin DOMAIN CAT_COLORS

KeyError == [status |-> "KeyError", out |-> <<>>]
Returned(out) == [status |-> "ok", out |-> out]

\* One pattern call: linePieces[i] are the pieces appended to result for line
\* i, in order; the call returns "\n".join(result) unless formatting a piece
\* raised KeyError.
Render(linePieces) ==
    IF \E i \in 1..Len(linePieces) : RaisesKeyError(linePieces[i])
    THEN KeyError
    ELSE Returned(join([i \in 1..Len(linePieces) |-> Concat(linePieces[i])]))

\* char in " \t\n"
InSpaceTabNewline(char) == char \in {" ", "\t", "\n"}

\* char == " " in place of char in " \t"
InSpaceOnly(char) == char = " "

\* char in " \t"
InSpaceTab(char) == char \in {" ", "\t"}

\* The loop "for i, line in enumerate(lines): for j, char in enumerate(line)"
\* of the simple per-character patterns: space, tab and newline pass through;
\* colors[i + 1][j + 1] is the colour name the pattern chooses at row i,
\* column j.
PerChar(lines, colors) ==
    Render(
        [i \in 1..Len(lines) |->
            [j \in 1..Len(lines[i]) |->
                IF InSpaceTabNewline(lines[i][j]) THEN Plain(<<lines[i][j]>>)
                ELSE Painted(colors[i][j], <<lines[i][j]>>)]])

\* The loop of the per-line patterns: the whole line is one piece.
PerLine(lines, colors) ==
    Render([i \in 1..Len(lines) |-> <<Painted(colors[i], lines[i])>>])

----------------
(* The simple patterns.                                                    *)

\* the whole text is one piece; nothing is split or joined
_solid_pattern(color, text) == Render(<<<<Painted(color, text)>>>>)

bicolor_pick(color1, color2, i, j) ==
    IF (i + j) % 7 < 4 THEN color1 ELSE color2

\* bicolor looking both colours up before the loop
bicolor_eager_lookup(color1, color2, text) ==
    IF {color1, color2} \subseteq DOMAIN CAT_COLORS
    THEN LET lines == split(text)
         IN  PerChar(lines,
                 [i \in 1..Len(lines) |-> [j \in 1..Len(lines[i]) |->
                     bicolor_pick(color1, color2, i - 1, j - 1)]])
    ELSE KeyError

_bicolor_pattern(color1, color2, text) ==
    LET lines == split(text)
    IN  PerChar(lines,
            [i \in 1..Len(lines) |-> [j \in 1..Len(lines[i]) |->
                bicolor_pick(color1, color2, i - 1, j - 1)]])

\* the stripe on the rows with i % 3 == 1
tabby_pick_shifted(base, stripe, i) == IF i % 3 = 1 THEN stripe ELSE base

tabby_pick(base, stripe, i) == IF i % 3 = 0 THEN stripe ELSE base

_tabby_pattern(base, stripe, text) ==
    LET lines == split(text)
    IN  PerLine(lines, [i \in 1..Len(lines) |-> tabby_pick(base, stripe, i - 1)])

calico_colors == <<"white", "orange", "black">>

\* A variant whose patch colour changes every row: colors[i % 3].
calico_pick_patch_by_row(i, j) ==
    LET patch_color == calico_colors[(i % 3) + 1]
    IN  IF j % 11 < 4 THEN "white"
        ELSE IF j % 11 < 7 THEN "orange"
        ELSE patch_color

calico_pick(i, j) ==
    LET patch_color == calico_colors[((i \div 5) % 3) + 1]
    IN  IF j % 11 < 4 THEN "white"
        ELSE IF j % 11 < 7 THEN "orange"
        ELSE patch_color

_calico_pattern(text) ==
    LET lines == split(text)
    IN  PerChar(lines,
            [i \in 1..Len(lines) |-> [j \in 1..Len(lines[i]) |->
                calico_pick(i - 1, j - 1)]])

tortoiseshell_pick(i, j) ==
    IF (i * 3 + j * 7) % 5 < 2 THEN "orange"
    ELSE IF (i * 3 + j * 7) % 5 < 4 THEN "black"
    ELSE "ginger"

_tortoiseshell_pattern(text) ==
    LET lines == split(text)
    IN  PerChar(lines,
            [i \in 1..Len(lines) |-> [j \in 1..Len(lines[i]) |->
                tortoiseshell_pick(i - 1, j - 1)]])

colorpoint_pick(body, points, total_lines, i) ==
    IF i < total_lines \div 5 \/ i > (total_lines * 4) \div 5
    THEN points ELSE body

_colorpoint_pattern(body, points, text) ==
    LET lines == split(text)
    IN  PerLine(lines,
            [i \in 1..Len(lines) |-> colorpoint_pick(body, points, Len(lines), i - 1)])

\* lighter.get(color, color) in place of lighter.get(color, "silver")
light_color_default_self(color) ==
    IF color = "black" THEN "dark_gray"
    ELSE IF color = "gray" THEN "light_gray"
    ELSE IF color = "blue_gray" THEN "silver"
    ELSE color

\* lighter.get(color, "silver")
light_color(color) ==
    IF color = "black" THEN "dark_gray"
    ELSE IF color = "gray" THEN "light_gray"
    ELSE IF color = "blue_gray" THEN "silver"
    ELSE "silver"

smoke_pick(color, j) == IF j % 4 = 0 THEN light_color(color) ELSE color

_smoke_pattern(color, text) ==
    LET lines == split(text)
    IN  PerChar(lines,
            [i \in 1..Len(lines) |-> [j \in 1..Len(lines[i]) |->
                smoke_pick(color, j - 1)]])

\* the chest with its first row and first column included
tuxedo_pick_inclusive(lines, i, j) ==
    LET total_lines == Len(lines)
        line_len == Len(lines[i + 1])
        center_start == line_len \div 3
        center_end == (line_len * 2) \div 3
        chest_zone == total_lines \div 4 <= i /\ i < (total_lines * 3) \div 4
    IN  IF chest_zone /\ center_start <= j /\ j < center_end
        THEN "white" ELSE "black"

tuxedo_pick(lines, i, j) ==
    LET total_lines == Len(lines)
        line_len == Len(lines[i + 1])
        center_start == line_len \div 3
        center_end == (line_len * 2) \div 3
        chest_zone == total_lines \div 4 < i /\ i < (total_lines * 3) \div 4
    IN  IF chest_zone /\ center_start < j /\ j < center_end
        THEN "white" ELSE "black"

_tuxedo_pattern(text) ==
    LET lines == split(text)
    IN  PerChar(lines,
            [i \in 1..Len(lines) |-> [j \in 1..Len(lines[i]) |->
                tuxedo_pick(lines, i - 1, j - 1)]])

----------------------------------------------------------------------------
(* Python's float arithmetic.  TLC's integers have 32 bits, so a double's   *)
(* 53-bit mantissa is kept as a natural number of any size.                *)

\* Natural numbers of any size: the little-endian sequence of their digits
\* in base Base, without leading zeros (TLC's integers have 32 bits).
Base == 32768

BigTrim(a) ==
    LET nz == {k \in 1..Len(a) : a[k] # 0}
    IN  IF nz = {} THEN <<>>
        ELSE SubSeq(a, 1, CHOOSE k \in nz : \A l \in nz : l <= k)

Big(n) == BigTrim(<<n % Base, (n \div Base) % Base, n \div (Base * Base)>>)

Limb(a, k) == IF k <= Len(a) THEN a[k] ELSE 0

RECURSIVE BigCarry(_, _)
BigCarry(cols, carry) ==
    IF cols = <<>> THEN (IF carry = 0 THEN <<>> ELSE <<carry>>)
    ELSE <<(cols[1] + carry) % Base>>
            \o BigCarry(Tail(cols), (cols[1] + carry) \div Base)

BigAdd(a, b) ==
    BigTrim(BigCarry([k \in 1..(IF Len(a) > Len(b) THEN Len(a) ELSE Len(b)) |->
                        Limb(a, k) + Limb(b, k)], 0))

\* a - b for a >= b
BigSub(a, b) ==
    BigTrim(BigCarry([k \in 1..Len(a) |-> a[k] - Limb(b, k)], 0))

\* a * s for 0 <= s < Base
BigMulSmall(a, s) == BigTrim(BigCarry([k \in 1..Len(a) |-> a[k] * s], 0))

BigShiftLimbs(a, n) == IF a = <<>> THEN <<>> ELSE [k \in 1..n |-> 0] \o a

RECURSIVE BigMul(_, _)
BigMul(a, b) ==
    IF b = <<>> THEN <<>>
    ELSE BigAdd(BigMulSmall(a, b[1]), BigShiftLimbs(BigMul(a, Tail(b)), 1))

\* quotient and remainder of a by d, for 0 < d < Base
RECURSIVE BigDivSmall(_, _)
BigDivSmall(a, d) ==
    IF a = <<>> THEN [q |-> <<>>, r |-> 0]
    ELSE LET high == BigDivSmall(Tail(a), d)
             t == high.r * Base + a[1]
         IN  [q |-> BigTrim(<<t \div d>> \o high.q), r |-> t % d]

\* a * 2^bits
BigShl(a, bits) == BigShiftLimbs(BigMulSmall(a, 2 ^ (bits % 15)), bits \div 15)

\* a \div 2^bits
BigShr(a, bits) ==
    IF bits \div 15 >= Len(a) THEN <<>>
    ELSE BigDivSmall(SubSeq(a, bits \div 15 + 1, Len(a)), 2 ^ (bits % 15)).q

BigBitLength(a) ==
    IF a = <<>> THEN 0
    ELSE (Len(a) - 1) * 15 + Cardinality({k \in 0..14 : 2 ^ k <= a[Len(a)]})

BigLess(a, b) ==
    IF Len(a) # Len(b) THEN Len(a) < Len(b)
    ELSE \E k \in 1..Len(a) :
            /\ a[k] < b[k]
            /\ \A l \in (k + 1)..Len(a) : a[l] = b[l]

BigOdd(a) == a # <<>> /\ a[1] % 2 = 1

\* A float that is not negative (an IEEE-754 double): the value m * 2^e with
\* m below 2^53.  RoundToDouble gives the float nearest to m * 2^e, ties to
\* even: q is m without its last drop bits, rest the value of those bits and
\* half the value of the first of them.
RoundUp(q, rest, half) ==
    IF BigLess(half, rest) \/ (rest = half /\ BigOdd(q))
    THEN BigAdd(q, <<1>>) ELSE q

RoundBits(m, e, drop, q) ==
    [m |-> RoundUp(q, BigSub(m, BigShl(q, drop)), BigShl(<<1>>, drop - 1)),
     e |-> e + drop]

RoundDrop(m, e, drop) ==
    IF drop <= 0 THEN [m |-> m, e |-> e]
    ELSE RoundBits(m, e, drop, BigShr(m, drop))

RoundToDouble(m, e) == RoundDrop(m, e, BigBitLength(m) - 53)

DoubleOfInt(n) == [m |-> Big(n), e |-> 0]

\* a / b in doubles, for integers a >= 0 and 0 < b < Base; also the double
\* that the decimal literal a/b denotes (0.35 is DoubleDiv(35, 100)).
DoubleDiv(a, b) ==
    LET d == BigDivSmall(BigShl(Big(a), 90), b)
    IN  RoundToDouble(BigAdd(BigMulSmall(d.q, 2), IF d.r = 0 THEN <<>> ELSE <<1>>), -91)

DoubleMul(x, y) == RoundToDouble(BigMul(x.m, y.m), x.e + y.e)

DoubleAligned(x, e) == BigShl(x.m, x.e - e)

DoubleAdd(x, y) ==
    LET e == IF x.e < y.e THEN x.e ELSE y.e
    IN  RoundToDouble(BigAdd(DoubleAligned(x, e), DoubleAligned(y, e)), e)

\* x - y for x >= y
DoubleSub(x, y) ==
    LET e == IF x.e < y.e THEN x.e ELSE y.e
    IN  RoundToDouble(BigSub(DoubleAligned(x, e), DoubleAligned(y, e)), e)

\* x < y
DoubleLess(x, y) ==
    LET e == IF x.e < y.e THEN x.e ELSE y.e
    IN  BigLess(DoubleAligned(x, e), DoubleAligned(y, e))

----------------------------------------------------------------------------
(* The portrait patterns.  relative_line = i / total_lines and the products *)
(* content_len * t are Python floats.  A comparison of a float with an      *)
(* integer or a literal is decided by the exact rationals whenever these    *)
(* differ: the float is within a few units of 2^-53 of the exact value,     *)
(* and two different exact values are at least 1 / (1000 * total_lines)     *)
(* apart.  When the exact values are equal the floats are computed, since   *)
(* rounding can leave the product below the integer it stands for           *)
(* (180 * 0.35 = 62.99999999999999).                                        *)

\* relative_line = i / total_lines
relative_line(i, total_lines) == DoubleDiv(i, total_lines)

\* relative_line < pct / 100.  i / total_lines is rounded to the nearest
\* float and so is the literal: where the quotient equals pct / 100 the two
\* floats are equal, elsewhere they are ordered as the exact values.
RelBelow(i, total_lines, pct) == i * 100 < pct * total_lines

\* content_len * (pct / 100), the literal and the product both rounded
FloatTimes(content_len, pct) ==
    DoubleMul(DoubleOfInt(content_len), DoubleDiv(pct, 100))

\* dist_from_center > content_len * (pct / 100)
DistAbove(dist, content_len, pct) ==
    IF dist * 100 = content_len * pct
    THEN \E edge \in {FloatTimes(content_len, pct)} :
            DoubleLess(edge, DoubleOfInt(dist))
    ELSE dist * 100 > content_len * pct

\* dist_from_center < content_len * (pct / 100)
DistBelow(dist, content_len, pct) ==
    IF dist * 100 = content_len * pct
    THEN \E edge \in {FloatTimes(content_len, pct)} :
            DoubleLess(DoubleOfInt(dist), edge)
    ELSE dist * 100 < content_len * pct

\* blaze_width = 0.08 + (relative_line - 0.08) * 0.5
\* dist_from_center > content_len * blaze_width
\* The exact blaze_width is (4 * total_lines + 50 * i) / (100 * total_lines);
\* each float operation is bound to its value before the next one uses it.
AboveUpperHeadBlaze(dist, content_len, total_lines, i) ==
    IF dist * 100 * total_lines = content_len * (4 * total_lines + 50 * i)
    THEN \E over \in {DoubleSub(relative_line(i, total_lines), DoubleDiv(8, 100))} :
         \E part \in {DoubleMul(over, DoubleDiv(5, 10))} :
         \E blaze_width \in {DoubleAdd(DoubleDiv(8, 100), part)} :
         \E edge \in {DoubleMul(DoubleOfInt(content_len), blaze_width)} :
            DoubleLess(edge, DoubleOfInt(dist))
    ELSE dist * 100 * total_lines > content_len * (4 * total_lines + 50 * i)

\* blaze_width = 0.12 + (relative_line - 0.14) * 0.8
\* dist_from_center > content_len * blaze_width
\* The exact blaze_width is (8 * total_lines + 800 * i) / (1000 * total_lines).
AboveUpperFaceBlaze(dist, content_len, total_lines, i) ==
    IF dist * 1000 * total_lines = content_len * (8 * total_lines + 800 * i)
    THEN \E over \in {DoubleSub(relative_line(i, total_lines), DoubleDiv(14, 100))} :
         \E part \in {DoubleMul(over, DoubleDiv(8, 10))} :
         \E blaze_width \in {DoubleAdd(DoubleDiv(12, 100), part)} :
         \E edge \in {DoubleMul(DoubleOfInt(content_len), blaze_width)} :
            DoubleLess(edge, DoubleOfInt(dist))
    ELSE dist * 1000 * total_lines > content_len * (8 * total_lines + 800 * i)

\* content_len = len(line.lstrip())
ContentLen(line) == Len(line) - LeadingSpaces(line)

\* center = leading_spaces + content_len // 2
Center(line) == LeadingSpaces(line) + ContentLen(line) \div 2

\* dist_from_center = abs(j - center)
DistFromCenter(line, j) == abs(j - Center(line))

\* The loop of the portrait patterns: a line with not line.strip() is
\* appended as it is; in the others space and tab pass through.
PerCharPortrait(lines, colors) ==
    Render(
        [i \in 1..Len(lines) |->
            IF IsBlankLine(lines[i]) THEN <<Plain(lines[i])>>
            ELSE [j \in 1..Len(lines[i]) |->
                    IF InSpaceTab(lines[i][j]) THEN Plain(<<lines[i][j]>>)
                    ELSE Painted(colors[i][j], <<lines[i][j]>>)]])

\* A variant that keeps the upper body's threshold (0.25) in the mid body.
iggy_is_back_color_mid_as_upper(total_lines, content_len, dist, i) ==
    IF RelBelow(i, total_lines, 8) THEN TRUE
    ELSE IF RelBelow(i, total_lines, 14)
        THEN AboveUpperHeadBlaze(dist, content_len, total_lines, i)
    ELSE IF RelBelow(i, total_lines, 22)
        THEN AboveUpperFaceBlaze(dist, content_len, total_lines, i)
    ELSE IF RelBelow(i, total_lines, 34) THEN DistAbove(dist, content_len, 35)
    ELSE IF RelBelow(i, total_lines, 72) THEN DistAbove(dist, content_len, 25)
    ELSE IF RelBelow(i, total_lines, 90) THEN DistAbove(dist, content_len, 40)
    ELSE DistAbove(dist, content_len, 45)

\* A variant whose feet zone has a narrower chest (0.35) than the legs (0.4).
iggy_is_back_color_narrow_feet(total_lines, content_len, dist, i) ==
    IF RelBelow(i, total_lines, 8) THEN TRUE
    ELSE IF RelBelow(i, total_lines, 14)
        THEN AboveUpperHeadBlaze(dist, content_len, total_lines, i)
    ELSE IF RelBelow(i, total_lines, 22)
        THEN AboveUpperFaceBlaze(dist, content_len, total_lines, i)
    ELSE IF RelBelow(i, total_lines, 34) THEN DistAbove(dist, content_len, 35)
    ELSE IF RelBelow(i, total_lines, 54) THEN DistAbove(dist, content_len, 25)
    ELSE IF RelBelow(i, total_lines, 72) THEN DistAbove(dist, content_len, 30)
    ELSE IF RelBelow(i, total_lines, 90) THEN DistAbove(dist, content_len, 40)
    ELSE DistAbove(dist, content_len, 35)

\* is_back_color of _iggy_pattern
iggy_is_back_color(total_lines, content_len, dist, i) ==
    IF RelBelow(i, total_lines, 8) THEN TRUE
    ELSE IF RelBelow(i, total_lines, 14)
        THEN AboveUpperHeadBlaze(dist, content_len, total_lines, i)
    ELSE IF RelBelow(i, total_lines, 22)
        THEN AboveUpperFaceBlaze(dist, content_len, total_lines, i)
    ELSE IF RelBelow(i, total_lines, 34) THEN DistAbove(dist, content_len, 35)
    ELSE IF RelBelow(i, total_lines, 54) THEN DistAbove(dist, content_len, 25)
    ELSE IF RelBelow(i, total_lines, 72) THEN DistAbove(dist, content_len, 30)
    ELSE IF RelBelow(i, total_lines, 90) THEN DistAbove(dist, content_len, 40)
    ELSE DistAbove(dist, content_len, 45)

\* A variant that paints the back black whatever color1 is.
iggy_pick_black_back(color1, color2, lines, i, j) ==
    LET line == lines[i + 1]
    IN  IF iggy_is_back_color(Len(lines), ContentLen(line), DistFromCenter(line, j), i)
        THEN "black" ELSE color2

iggy_pick(color1, color2, lines, i, j) ==
    LET line == lines[i + 1]
    IN  IF iggy_is_back_color(Len(lines), ContentLen(line), DistFromCenter(line, j), i)
        THEN color1 ELSE color2

_iggy_pattern(color1, color2, text) ==
    LET lines == split(text)
    IN  PerCharPortrait(lines,
            [i \in 1..Len(lines) |-> [j \in 1..Len(lines[i]) |->
                iggy_pick(color1, color2, lines, i - 1, j - 1)]])

lucy_color(total_lines, content_len, dist, i) ==
    IF RelBelow(i, total_lines, 15) THEN
        IF DistAbove(dist, content_len, 30) THEN "chocolate" ELSE "brown"
    ELSE IF RelBelow(i, total_lines, 35) THEN
        IF DistAbove(dist, content_len, 35) THEN "chocolate"
        ELSE IF DistAbove(dist, content_len, 20) THEN "brown"
        ELSE "ginger"
    ELSE IF RelBelow(i, total_lines, 65) THEN
        IF DistAbove(dist, content_len, 35) THEN "brown"
        ELSE IF DistAbove(dist, content_len, 20) THEN "ginger"
        ELSE "golden"
    ELSE IF RelBelow(i, total_lines, 85) THEN
        IF DistAbove(dist, content_len, 40) THEN "brown"
        ELSE IF DistAbove(dist, content_len, 25) THEN "orange"
        ELSE "golden"
    ELSE
        IF DistAbove(dist, content_len, 35) THEN "brown" ELSE "ginger"

_lucy_pattern(text) ==
    LET lines == split(text)
    IN  PerCharPortrait(lines,
            [i \in 1..Len(lines) |-> [j \in 1..Len(lines[i]) |->
                lucy_color(Len(lines), ContentLen(lines[i]),
                    DistFromCenter(lines[i], j - 1), i - 1)]])

\* i % 2 < 1 in place of i % 4 < 2: every other line is a stripe line.
is_stripe_line_every_other(i) == i % 2 < 1

\* is_stripe_line = i % 4 < 2
is_stripe_line(i) == i % 4 < 2

cassandra_color(total_lines, content_len, dist, i) ==
    IF RelBelow(i, total_lines, 12) THEN
        IF is_stripe_line(i) THEN "dark_gray" ELSE "gray"
    ELSE IF RelBelow(i, total_lines, 30) THEN
        IF DistAbove(dist, content_len, 35)
            THEN IF is_stripe_line(i) THEN "dark_gray" ELSE "gray"
        ELSE IF DistAbove(dist, content_len, 20)
            THEN IF is_stripe_line(i) THEN "gray" ELSE "silver"
        ELSE IF is_stripe_line(i) /\ i % 6 < 2 THEN "fawn" ELSE "silver"
    ELSE IF RelBelow(i, total_lines, 55) THEN
        IF DistAbove(dist, content_len, 40)
            THEN IF is_stripe_line(i) THEN "dark_gray" ELSE "gray"
        ELSE IF DistAbove(dist, content_len, 25)
            THEN IF is_stripe_line(i) THEN "gray" ELSE "silver"
        ELSE IF is_stripe_line(i) THEN "light_gray" ELSE "silver"
    ELSE IF RelBelow(i, total_lines, 75) THEN
        IF DistAbove(dist, content_len, 35)
            THEN IF is_stripe_line(i) THEN "dark_gray" ELSE "gray"
        ELSE IF DistAbove(dist, content_len, 20)
            THEN IF i % 7 < 2 THEN "fawn"
                 ELSE IF is_stripe_line(i) THEN "gray" ELSE "silver"
        ELSE "silver"
    ELSE IF RelBelow(i, total_lines, 90) THEN
        IF is_stripe_line(i) THEN "dark_gray" ELSE "silver"
    ELSE
        IF DistBelow(dist, content_len, 15) THEN "white"
        ELSE IF is_stripe_line(i) THEN "gray" ELSE "silver"

_cassandra_pattern(text) ==
    LET lines == split(text)
    IN  PerCharPortrait(lines,
            [i \in 1..Len(lines) |-> [j \in 1..Len(lines[i]) |->
                cassandra_color(Len(lines), ContentLen(lines[i]),
                    DistFromCenter(lines[i], j - 1), i - 1)]])

\* A variant whose belly zone uses silver where the code uses light_gray.
persephone_color_no_light_gray(total_lines, content_len, dist, i) ==
    IF RelBelow(i, total_lines, 10) THEN
        IF DistAbove(dist, content_len, 30) THEN "dark_gray" ELSE "gray"
    ELSE IF RelBelow(i, total_lines, 25) THEN
        IF DistAbove(dist, content_len, 35) THEN "dark_gray"
        ELSE IF DistAbove(dist, content_len, 20) THEN "gray"
        ELSE "silver"
    ELSE IF RelBelow(i, total_lines, 45) THEN
        IF DistAbove(dist, content_len, 35) THEN "gray"
        ELSE IF DistAbove(dist, content_len, 20) THEN "silver"
        ELSE "white"
    ELSE IF RelBelow(i, total_lines, 70) THEN
        IF DistAbove(dist, content_len, 40) THEN "gray"
        ELSE IF DistAbove(dist, content_len, 25) THEN "silver"
        ELSE "white"
    ELSE IF RelBelow(i, total_lines, 88) THEN
        IF DistAbove(dist, content_len, 35) THEN "gray"
        ELSE IF DistAbove(dist, content_len, 20) THEN "silver"
        ELSE "white"
    ELSE
        IF DistAbove(dist, content_len, 40) THEN "silver" ELSE "white"

persephone_color(total_lines, content_len, dist, i) ==
    IF RelBelow(i, total_lines, 10) THEN
        IF DistAbove(dist, content_len, 30) THEN "dark_gray" ELSE "gray"
    ELSE IF RelBelow(i, total_lines, 25) THEN
        IF DistAbove(dist, content_len, 35) THEN "dark_gray"
        ELSE IF DistAbove(dist, content_len, 20) THEN "gray"
        ELSE "silver"
    ELSE IF RelBelow(i, total_lines, 45) THEN
        IF DistAbove(dist, content_len, 35) THEN "gray"
        ELSE IF DistAbove(dist, content_len, 20) THEN "silver"
        ELSE "white"
    ELSE IF RelBelow(i, total_lines, 70) THEN
        IF DistAbove(dist, content_len, 40) THEN "gray"
        ELSE IF DistAbove(dist, content_len, 25) THEN "light_gray"
        ELSE "white"
    ELSE IF RelBelow(i, total_lines, 88) THEN
        IF DistAbove(dist, content_len, 35) THEN "gray"
        ELSE IF DistAbove(dist, content_len, 20) THEN "silver"
        ELSE "white"
    ELSE
        IF DistAbove(dist, content_len, 40) THEN "silver" ELSE "white"

_persephone_pattern(text) ==
    LET lines == split(text)
    IN  PerCharPortrait(lines,
            [i \in 1..Len(lines) |-> [j \in 1..Len(lines[i]) |->
                persephone_color(Len(lines), ContentLen(lines[i]),
                    DistFromCenter(lines[i], j - 1), i - 1)]])

\* heart_boundaries: 0-based line -> first column of the heart
heart_boundaries == [i \in 4..8 |-> <<28, 28, 28, 30, 32>>[i - 3]]

\* j > heart_boundaries[i] in place of j >= heart_boundaries[i]
is_heart_after(i, j) == i \in DOMAIN heart_boundaries /\ j > heart_boundaries[i]

\* is_heart = i in heart_boundaries and j >= heart_boundaries[i]
is_heart(i, j) == i \in DOMAIN heart_boundaries /\ j >= heart_boundaries[i]

jennycatto_pick(i, j) == IF is_heart(i, j) THEN "pink_red" ELSE "forest_green"

\* char == blank_braille
IsBlankBraille(char) == char = BlankBraille

_jennycatto_pattern(text) ==
    LET lines == split(text)
    IN  Render(
            [i \in 1..Len(lines) |->
                [j \in 1..Len(lines[i]) |->
                    IF IsBlankBraille(lines[i][j]) THEN Plain(<<lines[i][j]>>)
                    ELSE Painted(jennycatto_pick(i - 1, j - 1), <<lines[i][j]>>)]])

----------------------------------------------------------------------------
(* Random selection.  A pattern function is a closure; here it is the     *)
(* record of the factory that made it and the colours it was bound to.    *)

Func(kind, args) == [kind |-> kind, args |-> args]

\* pattern_func(content)
Apply(func, text) ==
    CASE func.kind = "_solid_pattern" -> _solid_pattern(func.args[1], text)
      [] func.kind = "_bicolor_pattern" ->
            _bicolor_pattern(func.args[1], func.args[2], text)
      [] func.kind = "_tabby_pattern" ->
            _tabby_pattern(func.args[1], func.args[2], text)
      [] func.kind = "_calico_pattern" -> _calico_pattern(text)
      [] func.kind = "_tortoiseshell_pattern" -> _tortoiseshell_pattern(text)
      [] func.kind = "_colorpoint_pattern" ->
            _colorpoint_pattern(func.args[1], func.args[2], text)
      [] func.kind = "_smoke_pattern" -> _smoke_pattern(func.args[1], text)
      [] func.kind = "_tuxedo_pattern" -> _tuxedo_pattern(text)
      [] func.kind = "_iggy_pattern" ->
            _iggy_pattern(func.args[1], func.args[2], text)
      [] func.kind = "_lucy_pattern" -> _lucy_pattern(text)
      [] func.kind = "_cassandra_pattern" -> _cassandra_pattern(text)
      [] func.kind = "_persephone_pattern" -> _persephone_pattern(text)
      [] func.kind = "_jennycatto_pattern" -> _jennycatto_pattern(text)

\* The entry named after the factory instead of the pattern.
EntryNamedByFactory(name, kind, args) == [name |-> kind, func |-> Func(kind, args)]

Entry(name, kind, args) == [name |-> name, func |-> Func(kind, args)]

\* The list get_random_pattern builds on every call.
patterns ==
    << Entry("solid_black", "_solid_pattern", <<"black">>),
       Entry("solid_white", "_solid_pattern", <<"white">>),
       Entry("solid_orange", "_solid_pattern", <<"orange">>),
       Entry("solid_gray", "_solid_pattern", <<"gray">>),
       Entry("solid_cream", "_solid_pattern", <<"cream">>),
       Entry("solid_brown", "_solid_pattern", <<"brown">>),
       Entry("solid_chocolate", "_solid_pattern", <<"chocolate">>),
       Entry("solid_blue_gray", "_solid_pattern", <<"blue_gray">>),
       Entry("solid_lilac", "_solid_pattern", <<"lilac">>),
       Entry("solid_cinnamon", "_solid_pattern", <<"cinnamon">>),
       Entry("solid_fawn", "_solid_pattern", <<"fawn">>),
       Entry("bicolor_black_white", "_bicolor_pattern", <<"black", "white">>),
       Entry("bicolor_black_white_tuxedo", "_iggy_pattern", <<"black", "white">>),
       Entry("bicolor_black_white_tuxedo_invert", "_iggy_pattern", <<"white", "black">>),
       Entry("bicolor_orange_white", "_bicolor_pattern", <<"orange", "white">>),
       Entry("bicolor_orange_white_tuxedo", "_iggy_pattern", <<"orange", "white">>),
       Entry("bicolor_orange_white_tuxedo_invert", "_iggy_pattern", <<"white", "orange">>),
       Entry("bicolor_gray_white", "_bicolor_pattern", <<"gray", "white">>),
       Entry("bicolor_gray_white_tuxedo", "_iggy_pattern", <<"gray", "white">>),
       Entry("bicolor_gray_white_tuxedo_invert", "_iggy_pattern", <<"white", "gray">>),
       Entry("bicolor_brown_white", "_bicolor_pattern", <<"brown", "white">>),
       Entry("bicolor_brown_white_tuxedo", "_iggy_pattern", <<"brown", "white">>),
       Entry("bicolor_brown_white_tuxedo_invert", "_iggy_pattern", <<"white", "brown">>),
       Entry("tabby_brown", "_tabby_pattern", <<"brown", "chocolate">>),
       Entry("tabby_orange", "_tabby_pattern", <<"orange", "ginger">>),
       Entry("tabby_gray", "_tabby_pattern", <<"gray", "dark_gray">>),
       Entry("tabby_silver", "_tabby_pattern", <<"silver", "gray">>),
       Entry("tabby_cream", "_tabby_pattern", <<"cream", "fawn">>),
       Entry("calico", "_calico_pattern", <<>>),
       Entry("tortoiseshell", "_tortoiseshell_pattern", <<>>),
       Entry("tuxedo", "_tuxedo_pattern", <<>>),
       Entry("colorpoint_seal", "_colorpoint_pattern", <<"cream", "chocolate">>),
       Entry("colorpoint_blue", "_colorpoint_pattern", <<"white", "blue_gray">>),
       Entry("colorpoint_lilac", "_colorpoint_pattern", <<"white", "lilac">>),
       Entry("smoke_black", "_smoke_pattern", <<"black">>),
       Entry("smoke_gray", "_smoke_pattern", <<"gray">>),
       Entry("smoke_blue", "_smoke_pattern", <<"blue_gray">>) >>

\* random.choice(patterns): any element of the list.
random_choice(seq) == {seq[k] : k \in 1..Len(seq)}

\* The list with Lucy's portrait added as one more tabby.
get_random_pattern_with_lucy ==
    random_choice(Append(patterns, [name |-> "tabby_lucy", func |-> Func("_lucy_pattern", <<>>)]))

get_random_pattern == random_choice(patterns)

----------------------------------------------------------------------------
(* The inputs.                                                             *)

\* All texts of at most MaxLen characters.
SmallTexts == UNION {[1..n -> Alphabet] : n \in 0..MaxLen}

\* Blocks of rows x cols characters, as the tests build them: lines of one
\* repeated character, optionally with gaps, filler, indentation or rows of
\* spaces, joined
\* by "\n", with or without a final "\n".
BlockShapes ==
    { <<4, 5>>, <<6, 5>>, <<8, 9>>, <<9, 34>>, <<10, 8>>, <<16, 12>>,
      <<20, 8>>, <<20, 29>>, <<40, 29>> }

Textures == {"full", "gaps", "filler", "indent", "bands"}

BlockChar(texture, i, j) ==
    CASE texture = "full" -> "M"
      [] texture = "gaps" -> IF (i + 2 * j) % 5 = 0 THEN " " ELSE "M"
      [] texture = "filler" -> IF (i + j) % 3 = 0 THEN BlankBraille ELSE "M"
      [] texture = "indent" -> IF j < i % 4 THEN " " ELSE "H"
      [] texture = "bands" -> IF i % 4 = 2 THEN " " ELSE "M"

BlockLines(rows, cols, texture) ==
    [i \in 1..rows |-> [j \in 1..cols |-> BlockChar(texture, i - 1, j - 1)]]

Block(rows, cols, texture, trailing) ==
    join(BlockLines(rows, cols, texture)) \o (IF trailing THEN <<"\n">> ELSE <<>>)

BlockTexts ==
    { Block(shape[1], shape[2], texture, trailing) :
        shape \in BlockShapes, texture \in Textures, trailing \in BOOLEAN }

\* Ragged texts: rows of NarrowCols letters and one row, the row-th, of cols
\* letters.  On these long rows a float product falls below the integer it
\* stands for: 180 * 0.35 in the face zone of the portraits, and
\* content_len * blaze_width in the two blaze zones of _iggy_pattern.
LongRows == { <<3, 1, 180>>, <<5, 1, 125>>, <<15, 2, 75>> }

NarrowCols == 5

Ragged(rows, row, cols, trailing) ==
    join([i \in 1..rows |->
            [j \in 1..(IF i - 1 = row THEN cols ELSE NarrowCols) |-> "M"]])
        \o (IF trailing THEN <<"\n">> ELSE <<>>)

RaggedTexts ==
    { Ragged(shape[1], shape[2], shape[3], trailing) :
        shape \in LongRows, trailing \in BOOLEAN }

Inputs == SmallTexts \cup BlockTexts \cup RaggedTexts

----------------------------------------------------------------------------
(* The command line.                                                       *)

CAT_NAMES == <<"iggy", "magda", "lucy", "cassandra", "persephone", "jennycatto">>

\* The option strings of the six store_true arguments that parse_args() adds
\* to the mutually exclusive group, by the attribute each one sets.
OptionStrings ==
    [ iggy |-> {"--iggy", "--ignatius"},
      lucy |-> {"--lucy", "--lucrezia"},
      magda |-> {"--magda", "--moo"},
      cassandra |-> {"--cassandra", "--cassie"},
      persephone |-> {"--persephone", "--percy"},
      jennycatto |-> {"--jennycatto"} ]

\* The option strings in the order parse_args() adds them.
OptionOrder ==
    << "--iggy", "--ignatius", "--lucy", "--lucrezia", "--magda", "--moo",
       "--cassandra", "--cassie", "--persephone", "--percy", "--jennycatto" >>

\* parser._option_string_actions in its order: the help action that
\* ArgumentParser adds on construction, then the arguments of the group.
AllOptionStrings == <<"-h", "--help">> \o OptionOrder

\* The attribute of the action an option string belongs to.
DestOf(option_string) ==
    IF option_string \in {"-h", "--help"} THEN "help"
    ELSE CHOOSE d \in DOMAIN OptionStrings : option_string \in OptionStrings[d]

\* The arguments a command line is made of: the option strings of the six
\* cats and of the help action, an option and a word the parser does not
\* know, two abbreviations (--ig begins --iggy and --ignatius, --igg only
\* --iggy), two options with a value and the short help option twice in
\* one argument.
ArgStrings ==
    {AllOptionStrings[k] : k \in 1..Len(AllOptionStrings)}
        \cup {"--bogus", "x", "--ig", "--igg", "--iggy=1", "--iggy=it's", "-hh"}

\* sys.argv[1:]: at most MaxFlags arguments, in any order.
CommandLines == UNION {[1..n -> ArgStrings] : n \in 0..MaxFlags}

\* name.startswith(prefix)
StartsWith(name, prefix) ==
    Len(name) >= Len(prefix) /\ SubSeq(name, 1, Len(prefix)) = prefix

\* part in text
InString(part, text) ==
    \E k \in 1..(Len(text) - Len(part) + 1) :
        SubSeq(text, k, k + Len(part) - 1) = part

\* sep.join(strs)
RECURSIVE JoinStrings(_, _)
JoinStrings(strs, sep) ==
    IF strs = <<>> THEN ""
    ELSE IF Len(strs) = 1 THEN strs[1]
    ELSE strs[1] \o sep \o JoinStrings(Tail(strs), sep)

\* text.split("=", 1) of a text that holds "="
SplitAtEquals(text) ==
    LET at == CHOOSE k \in 1..Len(text) :
                  /\ SubSeq(text, k, k) = "="
                  /\ \A l \in 1..(k - 1) : SubSeq(text, l, l) # "="
    IN  <<SubSeq(text, 1, at - 1), SubSeq(text, at + 1, Len(text))>>

\* argparse's name of an action in its messages: "/".join(option_strings)
ActionName(dest) ==
    LET Names(option_string) == DestOf(option_string) = dest
    IN  JoinStrings(SelectSeq(AllOptionStrings, Names), "/")

\* What _parse_optional makes of one argument.  explicit_arg is <<>> for
\* None and <<value>> for a value written after "=".
Positional ==
    [kind |-> "positional", dest |-> "", option_string |-> "",
     explicit_arg |-> <<>>, message |-> ""]

UnknownOptional ==
    [kind |-> "unknown", dest |-> "", option_string |-> "",
     explicit_arg |-> <<>>, message |-> ""]

OptionTuple(option_string, explicit_arg) ==
    [kind |-> "option", dest |-> DestOf(option_string),
     option_string |-> option_string, explicit_arg |-> explicit_arg,
     message |-> ""]

AmbiguousOption(message) ==
    [kind |-> "ambiguous", dest |-> "", option_string |-> "",
     explicit_arg |-> <<>>, message |-> message]

\* ArgumentParser._get_option_tuples: the option strings an abbreviation can
\* stand for.  After "--" the text before "=" is matched as a prefix; after
\* a single "-" the first two characters are matched as a short option
\* with the rest as its value, or the whole as a prefix.
_get_option_tuples(arg_string) ==
    IF SubSeq(arg_string, 2, 2) = "-"
    THEN LET has_value == InString("=", arg_string)
             option_prefix == IF has_value THEN SplitAtEquals(arg_string)[1]
                              ELSE arg_string
             explicit_arg == IF has_value THEN <<SplitAtEquals(arg_string)[2]>>
                             ELSE <<>>
             Begins(option_string) == StartsWith(option_string, option_prefix)
             found == SelectSeq(AllOptionStrings, Begins)
         IN  [k \in 1..Len(found) |-> OptionTuple(found[k], explicit_arg)]
    ELSE LET short_option_prefix == SubSeq(arg_string, 1, 2)
             short_explicit_arg == SubSeq(arg_string, 3, Len(arg_string))
             Begins(option_string) ==
                 \/ option_string = short_option_prefix
                 \/ StartsWith(option_string, arg_string)
             found == SelectSeq(AllOptionStrings, Begins)
         IN  [k \in 1..Len(found) |->
                OptionTuple(found[k],
                    IF found[k] = short_option_prefix THEN <<short_explicit_arg>>
                    ELSE <<>>)]

\* \d of the matcher, for an argument written in ASCII.
Digit == {"0", "1", "2", "3", "4", "5", "6", "7", "8", "9"}

\* parser._negative_number_matcher.match(arg_string), the pattern being
\* ^-\d+$|^-\d*\.\d+$: "$" matches at the end of the text and also before
\* a newline that ends it, so one final newline is left out of the match.
NegativeNumber(arg_string) ==
    LET Digits(lo, hi) == \A k \in lo..hi : SubSeq(arg_string, k, k) \in Digit
        len == Len(arg_string)
        n == IF len >= 1 /\ SubSeq(arg_string, len, len) = "\n"
             THEN len - 1 ELSE len
    IN  /\ n >= 1
        /\ SubSeq(arg_string, 1, 1) = "-"
        /\ \/ n >= 2 /\ Digits(2, n)
           \/ \E dot \in 2..(n - 1) :
                /\ SubSeq(arg_string, dot, dot) = "."
                /\ Digits(2, dot - 1)
                /\ Digits(dot + 1, n)

\* ArgumentParser._parse_optional
_parse_optional(arg_string) ==
    IF arg_string = "" THEN Positional
    ELSE IF SubSeq(arg_string, 1, 1) # "-" THEN Positional
    ELSE IF arg_string \in {AllOptionStrings[k] : k \in 1..Len(AllOptionStrings)}
        THEN OptionTuple(arg_string, <<>>)
    ELSE IF Len(arg_string) = 1 THEN Positional
    ELSE IF /\ InString("=", arg_string)
            /\ SplitAtEquals(arg_string)[1]
                  \in {AllOptionStrings[k] : k \in 1..Len(AllOptionStrings)}
        THEN OptionTuple(SplitAtEquals(arg_string)[1],
                         <<SplitAtEquals(arg_string)[2]>>)
    ELSE LET option_tuples == _get_option_tuples(arg_string)
         IN  IF Len(option_tuples) > 1
             THEN AmbiguousOption(
                    "ambiguous option: " \o arg_string \o " could match "
                    \o JoinStrings([k \in 1..Len(option_tuples) |->
                                      option_tuples[k].option_string], ", "))
             ELSE IF Len(option_tuples) = 1 THEN option_tuples[1]
             ELSE IF NegativeNumber(arg_string) THEN Positional
             ELSE IF InString(" ", arg_string) THEN Positional
             ELSE UnknownOptional

\* What parser.parse_args() comes to: the namespace, as the set of its
\* attributes that are True; the exit of the help action; or a call of
\* error(message).
Namespace(flags) == [outcome |-> "namespace", flags |-> flags, message |-> ""]
HelpExit == [outcome |-> "help", flags |-> {}, message |-> ""]
ErrorExit(message) == [outcome |-> "error", flags |-> {}, message |-> message]

\* "%r" % text, the repr of a str: between double quotes when the text
\* holds a single quote and no double quote, between single quotes
\* otherwise, with the quote, the backslash and the control characters
\* escaped.
ReprChar(char, quote) ==
    IF char = "\\" THEN "\\\\"
    ELSE IF char = "\n" THEN "\\n"
    ELSE IF char = "\r" THEN "\\r"
    ELSE IF char = "\t" THEN "\\t"
    ELSE IF char = "\f" THEN "\\x0c"
    ELSE IF char = quote THEN "\\" \o char
    ELSE char

Repr(text) ==
    LET quote == IF InString("'", text) /\ ~InString("\"", text)
                 THEN "\"" ELSE "'"
    IN  quote
        \o JoinStrings([k \in 1..Len(text) |->
                          ReprChar(SubSeq(text, k, k), quote)], "")
        \o quote

\* What consume_optional makes of one option: the actions to take, in
\* order, or the message of an ArgumentError.
ActionTuples(action_tuples) == [message |-> "", actions |-> action_tuples]

IgnoredExplicitArgument(dest, explicit_arg) ==
    [message |-> "argument " \o ActionName(dest)
                 \o ": ignored explicit argument " \o Repr(explicit_arg),
     actions |-> <<>>]

\* The loop of consume_optional.  No action of this parser takes a value
\* (arg_count is 0).  A single-dash option written with further characters
\* takes the first of them as the next single-dash option and the rest as
\* that option's explicit argument; any other explicit argument is
\* refused.
RECURSIVE consume_optional(_, _, _, _)
consume_optional(dest, option_string, explicit_arg, action_tuples) ==
    IF explicit_arg = <<>> THEN ActionTuples(Append(action_tuples, dest))
    ELSE IF SubSeq(option_string, 2, 2) # "-" /\ explicit_arg[1] # ""
    THEN LET next == SubSeq(option_string, 1, 1) \o SubSeq(explicit_arg[1], 1, 1)
             rest == SubSeq(explicit_arg[1], 2, Len(explicit_arg[1]))
         IN  IF next \in {AllOptionStrings[k] : k \in 1..Len(AllOptionStrings)}
             THEN consume_optional(DestOf(next), next,
                                   IF rest = "" THEN <<>> ELSE <<rest>>,
                                   Append(action_tuples, dest))
             ELSE IgnoredExplicitArgument(dest, explicit_arg[1])
    ELSE IgnoredExplicitArgument(dest, explicit_arg[1])

\* take_action for each of the actions of one option, in order: the help
\* action prints and exits, an action of the mutually exclusive group is
\* refused after another action of the group, and is recorded in seen
\* (seen_non_default_actions) otherwise.
RECURSIVE take_action(_, _)
take_action(actions, seen) ==
    IF actions = <<>> THEN Namespace(seen)
    ELSE IF Head(actions) = "help" THEN HelpExit
    ELSE IF seen \ {Head(actions)} # {}
    THEN ErrorExit("argument " \o ActionName(Head(actions))
                   \o ": not allowed with argument "
                   \o ActionName(CHOOSE d \in seen : d # Head(actions)))
    ELSE take_action(Tail(actions), seen \cup {Head(actions)})

\* The loop of ArgumentParser._parse_known_args from the k-th argument on.
\* seen holds the attributes set so far (seen_non_default_actions), extras
\* the arguments no action takes, among them "--" and all that follows it.
\* An ArgumentError of consume_optional or take_action and the exit of the
\* help action end the loop.  After the last argument parse_args() reports
\* the extras.
RECURSIVE consume(_, _, _, _)
consume(arg_strings, k, seen, extras) ==
    IF k > Len(arg_strings)
    THEN IF extras # <<>>
         THEN ErrorExit("unrecognized arguments: " \o JoinStrings(extras, " "))
         ELSE Namespace(seen)
    ELSE IF arg_strings[k] = "--"
    THEN consume(arg_strings, Len(arg_strings) + 1, seen,
                 extras \o SubSeq(arg_strings, k, Len(arg_strings)))
    ELSE LET option == _parse_optional(arg_strings[k])
             taken == consume_optional(option.dest, option.option_string,
                                       option.explicit_arg, <<>>)
             after == take_action(taken.actions, seen)
         IN  IF option.kind # "option"
             THEN consume(arg_strings, k + 1, seen, Append(extras, arg_strings[k]))
             ELSE IF taken.message # "" THEN ErrorExit(taken.message)
             ELSE IF after.outcome # "namespace" THEN after
             ELSE consume(arg_strings, k + 1, after.flags, extras)

\* parser.parse_args().  _parse_known_args first classifies every argument
\* before "--", so an ambiguous abbreviation is reported before any action
\* is taken.
parse_args(arg_strings) ==
    LET ambiguous == {k \in 1..Len(arg_strings) :
                         /\ \A l \in 1..k : arg_strings[l] # "--"
                         /\ _parse_optional(arg_strings[k]).kind = "ambiguous"}
    IN  IF ambiguous # {}
        THEN ErrorExit(_parse_optional(
                 arg_strings[CHOOSE k \in ambiguous : \A l \in ambiguous : k <= l]).message)
        ELSE consume(arg_strings, 1, {}, <<>>)

\* The attributes of the parsed namespace that are True.
Flags(argv) == parse_args(argv).flags

\* The runs of parse_args(): each command line with what it comes to.
\* parse_args() reads nothing but sys.argv.
Parsed == {[argv |-> argv, args |-> parse_args(argv)] : argv \in CommandLines}

NoPick == [name |-> "", func |-> Func("", <<>>)]
NoResult == [status |-> "none", out |-> <<>>]
NoCall == [op |-> "", func |-> Func("", <<>>), argv |-> <<>>, flags |-> {}]

----------------------------------------------------------------------------
(* The state machine.                                                      *)

Init ==
    /\ CAT_COLORS = CatColorTable
    /\ content \in Inputs
    /\ pc = "start"
    /\ call = NoCall
    /\ picked = NoPick
    /\ result = NoResult
    /\ stdout = <<>>
    /\ stderr = <<>>
    /\ exit_status = <<>>

\* A pattern function built by its factory is called on the text, as the
\* tests do: pattern = _solid_pattern("orange"); result = pattern(content)
CallPattern(func) ==
    /\ pc' = "done"
    /\ call' = [op |-> "apply", func |-> func, argv |-> <<>>, flags |-> {}]
    /\ result' = Apply(func, content)
    /\ UNCHANGED <<CAT_COLORS, content, picked, stdout, stderr, exit_status>>

solid ==
    \E c \in ParamColors :
        /\ pc = "start"
        /\ CallPattern(Func("_solid_pattern", <<c>>))

bicolor ==
    \E c1, c2 \in ParamColors :
        /\ pc = "start"
        /\ CallPattern(Func("_bicolor_pattern", <<c1, c2>>))

tabby ==
    \E base, stripe \in ParamColors :
        /\ pc = "start"
        /\ CallPattern(Func("_tabby_pattern", <<base, stripe>>))

calico ==
    /\ pc = "start"
    /\ CallPattern(Func("_calico_pattern", <<>>))

tortoiseshell ==
    /\ pc = "start"
    /\ CallPattern(Func("_tortoiseshell_pattern", <<>>))

colorpoint ==
    \E body, points \in ParamColors :
        /\ pc = "start"
        /\ CallPattern(Func("_colorpoint_pattern", <<body, points>>))

smoke ==
    \E c \in SmokeColors :
        /\ pc = "start"
        /\ CallPattern(Func("_smoke_pattern", <<c>>))

tuxedo ==
    /\ pc = "start"
    /\ CallPattern(Func("_tuxedo_pattern", <<>>))

iggy ==
    \E c1, c2 \in ParamColors :
        /\ pc = "start"
        /\ CallPattern(Func("_iggy_pattern", <<c1, c2>>))

lucy ==
    /\ pc = "start"
    /\ CallPattern(Func("_lucy_pattern", <<>>))

cassandra ==
    /\ pc = "start"
    /\ CallPattern(Func("_cassandra_pattern", <<>>))

persephone ==
    /\ pc = "start"
    /\ CallPattern(Func("_persephone_pattern", <<>>))

jennycatto ==
    /\ pc = "start"
    /\ CallPattern(Func("_jennycatto_pattern", <<>>))

\* name, func = get_random_pattern()
GetRandomPattern ==
    /\ pc = "start"
    /\ pc' = "done"
    /\ call' = [op |-> "get_random_pattern", func |-> Func("", <<>>),
                argv |-> <<>>, flags |-> {}]
    /\ picked' \in get_random_pattern
    /\ UNCHANGED <<CAT_COLORS, content, result, stdout, stderr, exit_status>>

\* print(colored_content) and the caption lines after it; a call that raised
\* prints nothing.
Printed(res, captions) ==
    IF res.status = "ok" THEN <<res.out>> \o captions ELSE <<>>

\* The body of print_catto(): content is the text of the catto asset.
PrintCatto(op, argv) ==
    /\ picked' \in get_random_pattern
    /\ call' = [op |-> op, func |-> picked'.func, argv |-> argv, flags |-> Flags(argv)]
    /\ result' = Apply(picked'.func, content)
    /\ stdout' = Printed(result', <<>>)

\* The body of for_iggy(), for_lucy(), ...: content is the text of the asset
\* the function reads (hearto for for_jennycatto, catto for the others).
ForCat(op, argv, func, captions) ==
    /\ call' = [op |-> op, func |-> func, argv |-> argv, flags |-> Flags(argv)]
    /\ picked' = picked
    /\ result' = Apply(func, content)
    /\ stdout' = Printed(result', captions)

for_iggy(op, argv) ==
    ForCat(op, argv, Func("_iggy_pattern", <<"black", "white">>),
           <<"I miss the potamus.">>)

for_lucy(op, argv) ==
    ForCat(op, argv, Func("_lucy_pattern", <<>>), <<"The world's babiest.">>)

for_moo(op, argv) ==
    ForCat(op, argv, Func("_solid_pattern", <<"black">>),
           <<"The moominkittycat would like food.  Please.">>)

for_cassandra(op, argv) ==
    ForCat(op, argv, Func("_cassandra_pattern", <<>>),
           <<"The babiest brioche loaf you ever saw.">>)

for_persephone(op, argv) ==
    ForCat(op, argv, Func("_persephone_pattern", <<>>),
           <<"Miss independent snugglemonster, Percypie herself.">>)

for_jennycatto(op, argv) ==
    ForCat(op, argv, Func("_jennycatto_pattern", <<>>),
           << "For my love.",
              "The heart of the catto family.",
              "I hope we have a fantastic Valentines Day, and a fantastic 100 more Valentines days together." >>)

print_catto ==
    /\ pc = "start"
    /\ pc' = "done"
    /\ PrintCatto("print_catto", <<>>)
    /\ UNCHANGED <<CAT_COLORS, content, stderr, exit_status>>

MultipleCatsMessage ==
    "You cannot call multiple cats!  You must pick one cat flag only.\n"

\* parser.format_usage() and parser.format_help(), for the program name
\* main.py and a terminal of 80 columns.
UsageText ==
    "usage: main.py [-h]\n"
    \o "               [--iggy | --lucy | --magda | --cassandra | --persephone | --jennycatto]\n"

HelpText ==
    UsageText
    \o "\n"
    \o "Display a colorful ASCII cat.\n"
    \o "\n"
    \o "options:\n"
    \o "  -h, --help             show this help message and exit\n"
    \o "  --iggy, --ignatius     Display a black and white bicolor cat for Iggy\n"
    \o "  --lucy, --lucrezia     Display a brown tabby cat for Lucy\n"
    \o "  --magda, --moo         Display a black cat for Magda the moominkittycat\n"
    \o "  --cassandra, --cassie  Display a silver tabby cat for Cassandra\n"
    \o "  --persephone, --percy  Display a silver and white bicolor cat for Persephone\n"
    \o "  --jennycatto           Display a message for my love.\n"

\* A variant without the override: ArgumentParser.error for every message.
ParserErrorGeneric(message) ==
    /\ stderr' = <<UsageText, "main.py: error: " \o message \o "\n">>
    /\ exit_status' = <<2>>
    /\ UNCHANGED <<picked, result, stdout>>

\* CatArgumentParser.error(message).  self.exit(2, text) writes text to
\* sys.stderr and exits with status 2; print_help(sys.stderr) writes the
\* help text; super().error(message) writes the usage and then
\* "main.py: error: <message>" and exits with status 2.
ParserError(message) ==
    /\ stderr' =
          IF InString("not allowed with argument", message)
          THEN <<MultipleCatsMessage>>
          ELSE IF InString("unrecognized arguments", message)
          THEN <<HelpText, "\nError: " \o message \o "\n">>
          ELSE <<UsageText, "main.py: error: " \o message \o "\n">>
    /\ exit_status' = <<2>>
    /\ UNCHANGED <<picked, result, stdout>>

\* The help action: parser.print_help() writes the help text to sys.stdout
\* and parser.exit() exits with status 0.
PrintHelp ==
    /\ stdout' = <<HelpText>>
    /\ exit_status' = <<0>>
    /\ UNCHANGED <<picked, result, stderr>>

\* main(): argv is the command line.  parse_args() returns the namespace,
\* or exits inside argparse: with the help text, or through error(message).
\* A namespace has at most one attribute that is True.
main ==
    /\ pc = "start"
    /\ \E parsed \in Parsed :
       \E argv \in {parsed.argv}, args \in {parsed.args} :
          /\ pc' = "done"
          /\ UNCHANGED <<CAT_COLORS, content>>
          /\ IF args.outcome = "error"
             THEN /\ call' = [op |-> "main", func |-> Func("", <<>>),
                              argv |-> argv, flags |-> {}]
                  /\ ParserError(args.message)
             ELSE IF args.outcome = "help"
             THEN /\ call' = [op |-> "main", func |-> Func("", <<>>),
                              argv |-> argv, flags |-> {}]
                  /\ PrintHelp
             ELSE /\ UNCHANGED stderr
                  /\ exit_status' = <<0>>
                  /\ IF "iggy" \in args.flags THEN for_iggy("main", argv)
                     ELSE IF "lucy" \in args.flags THEN for_lucy("main", argv)
                     ELSE IF "magda" \in args.flags THEN for_moo("main", argv)
                     ELSE IF "cassandra" \in args.flags THEN for_cassandra("main", argv)
                     ELSE IF "persephone" \in args.flags THEN for_persephone("main", argv)
                     ELSE IF "jennycatto" \in args.flags THEN for_jennycatto("main", argv)
                     ELSE PrintCatto("main", argv)

Next ==
    \/ solid
    \/ bicolor
    \/ tabby
    \/ calico
    \/ tortoiseshell
    \/ colorpoint
    \/ smoke
    \/ tuxedo
    \/ iggy
    \/ lucy
    \/ cassandra
    \/ persephone
    \/ jennycatto

\* The pattern functions, each called on every input.
Spec == Init /\ [][Next]_vars

ProgramNext ==
    \/ GetRandomPattern
    \/ print_catto
    \/ main

\* The texts of the asset files catto and hearto that the program reads:
\* the blocks and the ragged texts.
AssetTexts == BlockTexts \cup RaggedTexts

ProgramInit == Init /\ content \in AssetTexts

\* The program's entry points, each run with every asset text as the text
\* of the asset it reads.
Program == ProgramInit /\ [][ProgramNext]_vars

----------------------------------------------------------------------------
(* Reading a rendered text back.                                           *)

\* ANSI_PATTERN = \033\[[0-9;]+m
IsEscape(tok) ==
    /\ Len(tok) >= 6
    /\ SubSeq(tok, 1, 4) = "ESC["
    /\ SubSeq(tok, Len(tok), Len(tok)) = "m"
    /\ \A k \in 5..(Len(tok) - 1) :
          SubSeq(tok, k, k) \in {"0", "1", "2", "3", "4", "5", "6", "7", "8", "9", ";"}

IsNotEscape(tok) == ~IsEscape(tok)

\* ANSI_PATTERN.sub("", text)
_strip_ansi(out) == SelectSeq(out, IsNotEscape)

IsColorCode(tok) == IsEscape(tok) /\ tok # RESET

\* The colour codes that are active (emitted and not yet RESET) at each
\* character among toks[lo..hi], given those active before toks[lo], and
\* those active after toks[hi].  A colour code adds itself, RESET ends all.
RECURSIVE AnnotRange(_, _, _, _)
AnnotRange(toks, lo, hi, open) ==
    IF lo > hi THEN [ann |-> <<>>, open |-> open]
    ELSE IF lo = hi THEN
        IF toks[lo] = RESET THEN [ann |-> <<>>, open |-> <<>>]
        ELSE IF IsColorCode(toks[lo]) THEN [ann |-> <<>>, open |-> Append(open, toks[lo])]
        ELSE [ann |-> <<open>>, open |-> open]
    ELSE LET mid == (lo + hi) \div 2
             left == AnnotRange(toks, lo, mid, open)
             right == AnnotRange(toks, mid + 1, hi, left.open)
         IN  [ann |-> left.ann \o right.ann, open |-> right.open]

\* The same for the output lines outLines[lo..hi], one sequence per line.
RECURSIVE AnnotLines(_, _, _, _)
AnnotLines(outLines, lo, hi, open) ==
    IF lo > hi THEN [ann |-> <<>>, open |-> open]
    ELSE IF lo = hi THEN
        LET line == AnnotRange(outLines[lo], 1, Len(outLines[lo]), open)
        IN  [ann |-> <<line.ann>>, open |-> line.open]
    ELSE LET mid == (lo + hi) \div 2
             left == AnnotLines(outLines, lo, mid, open)
             right == AnnotLines(outLines, mid + 1, hi, left.open)
         IN  [ann |-> left.ann \o right.ann, open |-> right.open]

\* Annotations(out)[i + 1][j + 1]: the colour codes active at row i, column j.
Annotations(out) ==
    LET outLines == split(out)
    IN  AnnotLines(outLines, 1, Len(outLines), <<>>).ann

\* A call of a pattern function has returned its output.
Rendered == pc = "done" /\ result.status = "ok"

Kind == call.func.kind

\* The 0-based positions (i, j) of the text's characters.
Positions(lines) ==
    UNION {{<<i, j>> : j \in 0..(Len(lines[i + 1]) - 1)} : i \in 0..(Len(lines) - 1)}

CharAt(lines, pos) == lines[pos[1] + 1][pos[2] + 1]

SimpleKinds ==
    { "_solid_pattern", "_bicolor_pattern", "_tabby_pattern", "_calico_pattern",
      "_tortoiseshell_pattern", "_colorpoint_pattern", "_smoke_pattern",
      "_tuxedo_pattern" }

ZoneKinds ==
    {"_iggy_pattern", "_lucy_pattern", "_cassandra_pattern", "_persephone_pattern"}

\* The patterns that wrap a whole text or line, or every character but the
\* filler, in a colour.
WrappingKinds ==
    {"_solid_pattern", "_tabby_pattern", "_colorpoint_pattern", "_jennycatto_pattern"}

----------------------------------------------------------------------------
(* The claims.                                                             *)

\* C1: for every pattern function and every input, removing every colour code
\* and every RESET from the output yields the input exactly; the output has
\* as many lines as the input, and each output line has the characters of
\* the corresponding input line.
C1_RoundTrip ==
    Rendered =>
        LET outLines == split(result.out)
            lines == split(content)
        IN  /\ _strip_ansi(result.out) = content
            /\ Len(outLines) = Len(lines)
            /\ \A i \in 1..Len(lines) : _strip_ansi(outLines[i]) = lines[i]

\* A portrait pattern has coloured a text with an empty line and a final newline.
C1_Witness ==
    /\ Rendered
    /\ Kind = "_iggy_pattern"
    /\ content = <<"M", "\n", "\n">>
    /\ Len(result.out) = 5

\* C2 as claimed: for every pattern function, no space or tab lies between a
\* colour code and the RESET that closes it.
C2_WhitespaceNeverColoured ==
    Rendered =>
        LET lines == split(content)
            ann == Annotations(result.out)
        IN  \A pos \in Positions(lines) :
                CharAt(lines, pos) \in {" ", "\t"} => CharAt(ann, pos) = <<>>

\* C2 as amended: the patterns that decide character by character (bicolor,
\* calico, tortoiseshell, smoke, tuxedo, iggy, lucy, cassandra, persephone)
\* never colour a space or tab; solid, tabby, colorpoint and the heart-overlay
\* pattern put every space and tab inside one colour annotation.
C2_WhitespaceByPattern ==
    Rendered =>
        LET lines == split(content)
            ann == Annotations(result.out)
        IN  \A pos \in Positions(lines) :
                CharAt(lines, pos) \in {" ", "\t"} =>
                    IF Kind \in WrappingKinds
                    THEN Len(CharAt(ann, pos)) = 1
                    ELSE CharAt(ann, pos) = <<>>

\* A per-character pattern has rendered a text with a tab and a space next to
\* a letter.
C2_Witness ==
    /\ Rendered
    /\ Kind = "_persephone_pattern"
    /\ content = <<"M", "\t", " ">>
    /\ Len(result.out) = 5

\* C3: for every simple pattern each non-whitespace character is covered by
\* exactly one colour annotation: one colour code is active when it is
\* emitted, never none and never two.
C3_ExactlyOneAnnotation ==
    (Rendered /\ Kind \in SimpleKinds) =>
        LET lines == split(content)
            ann == Annotations(result.out)
        IN  \A pos \in Positions(lines) :
                CharAt(lines, pos) \notin StrWhitespace => Len(CharAt(ann, pos)) = 1

\* The colorpoint pattern has rendered two letters in a row.
C3_Witness ==
    /\ Rendered
    /\ Kind = "_colorpoint_pattern"
    /\ content = <<"M", "M", "\n">>
    /\ Len(result.out) = 7

\* The family prefixes of the names of the random patterns.
FamilyPrefixes ==
    { "solid_", "bicolor_", "tabby_", "calico", "tortoiseshell", "tuxedo",
      "colorpoint_", "smoke_" }

Contains(seq, x) == \E k \in 1..Len(seq) : seq[k] = x

\* C4: every pair get_random_pattern can return has a name that starts with
\* a family prefix; the list it draws from is fixed, holds at least 3
\* distinct names, and each of its entries is a possible result.
C4_RandomNames ==
    /\ picked # NoPick =>
          /\ \E prefix \in FamilyPrefixes : StartsWith(picked.name, prefix)
          /\ Contains(patterns, picked)
    /\ Cardinality({patterns[k].name : k \in 1..Len(patterns)}) >= 3
    /\ pc = "start" =>
          \A k \in 1..Len(patterns) :
              ENABLED (GetRandomPattern /\ picked' = patterns[k])

\* get_random_pattern has returned the last entry of the list.
C4_Witness ==
    /\ pc = "done"
    /\ call.op = "get_random_pattern"
    /\ picked.name = "smoke_blue"
    /\ picked.func = Func("_smoke_pattern", <<"blue_gray">>)

PortraitKinds == ZoneKinds \cup {"_jennycatto_pattern"}

\* The cat flag whose for_... function applies the portrait.
FlagOf(kind) ==
    CASE kind = "_iggy_pattern" -> "iggy"
      [] kind = "_lucy_pattern" -> "lucy"
      [] kind = "_cassandra_pattern" -> "cassandra"
      [] kind = "_persephone_pattern" -> "persephone"
      [] kind = "_jennycatto_pattern" -> "jennycatto"

\* The program (main or print_catto, not a direct call of a pattern) has run.
ProgramRan == pc = "done" /\ call.op \in {"main", "print_catto"}

\* C5 as claimed: no function get_random_pattern can return is a portrait
\* pattern function, and a portrait is applied only when the caller selects
\* the corresponding cat.
C5_NoPortraitAtRandom ==
    /\ picked # NoPick => picked.func.kind \notin PortraitKinds
    /\ (ProgramRan /\ Kind \in PortraitKinds) => call.flags = {FlagOf(Kind)}

\* C5 as amended: no function get_random_pattern can return is _lucy_pattern,
\* _cassandra_pattern, _persephone_pattern or _jennycatto_pattern, and these
\* four are applied only when the caller selects the corresponding cat; the
\* tuxedo-style portrait _iggy_pattern is also applied by random selection,
\* under a name bicolor_..._tuxedo or bicolor_..._tuxedo_invert.
C5_RandomPortraitsOnlyIggy ==
    /\ picked # NoPick =>
          /\ picked.func.kind \notin PortraitKinds \ {"_iggy_pattern"}
          /\ picked.func.kind = "_iggy_pattern" =>
                /\ StartsWith(picked.name, "bicolor_")
                /\ \E k \in 1..Len(picked.name) :
                      SubSeq(picked.name, k, Len(picked.name))
                          \in {"_tuxedo", "_tuxedo_invert"}
    /\ (ProgramRan /\ Kind \in PortraitKinds) =>
          \/ call.flags = {FlagOf(Kind)}
          \/ /\ Kind = "_iggy_pattern"
             /\ call.flags = {}
             /\ picked.func = call.func

\* main, given no flag, has drawn and applied the tuxedo-style portrait.
C5_Witness ==
    /\ Rendered
    /\ call.op = "main"
    /\ call.flags = {}
    /\ picked.func = Func("_iggy_pattern", <<"white", "gray">>)
    /\ call.func = picked.func
    /\ Contains(result.out, "M")

\* The codes of the 256-colour palette: ESC[38;5;<n>m with 0 <= n <= 255.
PaletteCodes == {"ESC[38;5;" \o ToString(n) \o "m" : n \in 0..255}

\* C6: the colour table binds every colour name to one code ESC[38;5;<n>m
\* with 0 <= n <= 255, no operation changes the table, and no two names are
\* bound to the same code.
C6_ColorTable ==
    /\ CAT_COLORS = CatColorTable
    /\ DOMAIN CAT_COLORS = DOMAIN ColorNumber
    /\ \A name \in DOMAIN CAT_COLORS : CAT_COLORS[name] \in PaletteCodes
    /\ \A a, b \in DOMAIN CAT_COLORS : a # b => CAT_COLORS[a] # CAT_COLORS[b]

\* A pattern has looked up silver and light_gray, whose numbers are 250 and 249.
C6_Witness ==
    /\ Rendered
    /\ call.func = Func("_smoke_pattern", <<"gray">>)
    /\ content = <<"M", "M">>
    /\ result.out = <<"ESC[38;5;249m", "M", RESET, "ESC[38;5;245m", "M", RESET>>

\* The colour names bound to the called pattern function.
BoundColors == {call.func.args[k] : k \in 1..Len(call.func.args)}

\* The positions a per-character pattern colours: those it does not pass through.
ColouredPositions(lines) ==
    {pos \in Positions(lines) : ~InSpaceTabNewline(CharAt(lines, pos))}

\* The positions a zone portrait colours.
ZonePositions(lines) ==
    {pos \in Positions(lines) :
        ~IsBlankLine(lines[pos[1] + 1]) /\ ~InSpaceTab(CharAt(lines, pos))}

\* The colour names the called pattern formats at least one piece of the
\* text in (for the patterns that are bound to colour names).
UsedColors(func, lines) ==
    LET a == func.args
        rows == 0..(Len(lines) - 1)
    IN  CASE func.kind = "_solid_pattern" -> {a[1]}
          [] func.kind = "_tabby_pattern" ->
                {IF i % 3 = 0 THEN a[2] ELSE a[1] : i \in rows}
          [] func.kind = "_colorpoint_pattern" ->
                {IF i < Len(lines) \div 5 \/ i > (Len(lines) * 4) \div 5
                 THEN a[2] ELSE a[1] : i \in rows}
          [] func.kind = "_bicolor_pattern" ->
                {IF (pos[1] + pos[2]) % 7 < 4 THEN a[1] ELSE a[2] :
                    pos \in ColouredPositions(lines)}
          [] func.kind = "_smoke_pattern" ->
                {IF pos[2] % 4 # 0 THEN a[1]
                 ELSE IF a[1] = "black" THEN "dark_gray"
                 ELSE IF a[1] = "gray" THEN "light_gray"
                 ELSE "silver" : pos \in ColouredPositions(lines)}
          [] func.kind = "_iggy_pattern" ->
                {iggy_pick(a[1], a[2], lines, pos[1], pos[2]) :
                    pos \in ZonePositions(lines)}

BoundKinds ==
    { "_solid_pattern", "_tabby_pattern", "_colorpoint_pattern",
      "_bicolor_pattern", "_smoke_pattern", "_iggy_pattern" }

\* A pattern function bound to colour names has been called on the text.
BoundCall == pc = "done" /\ call.op = "apply" /\ Kind \in BoundKinds

\* C7 as claimed: a pattern bound to a colour name that is not in the colour
\* table fails with an unknown-colour error for every input.
C7_UnknownAlwaysFails ==
    (BoundCall /\ ~(BoundColors \subseteq DOMAIN CAT_COLORS)) =>
        result.status = "KeyError"

\* C7 as amended: a pattern bound to a colour name that is not in the colour
\* table fails with an unknown-colour error exactly when the unknown name is
\* the colour of at least one piece of the input (a character, a line or the
\* whole text); otherwise it returns its output, in which every colour code
\* is the table's code of a colour the pattern selected, so that no code
\* stands in for the unknown name.  For smoke the lighter variant of an
\* unknown name is silver, which is in the table.
C7_UnknownFailsWhenUsed ==
    BoundCall =>
        LET used == UsedColors(call.func, split(content))
        IN  /\ result.status = "KeyError" <=> ~(used \subseteq DOMAIN CAT_COLORS)
            /\ result.status = "ok" =>
                  \A k \in 1..Len(result.out) :
                      IsColorCode(result.out[k]) =>
                          \E c \in used : result.out[k] = CAT_COLORS[c]

\* smoke bound to an unknown colour has coloured a letter in column 0 silver,
\* without an error.
C7_Witness ==
    /\ BoundCall
    /\ call.func = Func("_smoke_pattern", <<UnknownColor>>)
    /\ content = <<"M", "\n", "M">>
    /\ result = Returned(<<"ESC[38;5;250m", "M", RESET, "\n", "ESC[38;5;250m", "M", RESET>>)

\* C8: for tabby(base, stripe) every row i with i mod 3 = 0 is coloured
\* entirely with the stripe colour and every other row entirely with the
\* base colour.
C8_TabbyRows ==
    (Rendered /\ Kind = "_tabby_pattern") =>
        LET lines == split(content)
            outLines == split(result.out)
            base == call.func.args[1]
            stripe == call.func.args[2]
        IN  /\ Len(outLines) = Len(lines)
            /\ \A i \in 0..(Len(lines) - 1) :
                  outLines[i + 1] =
                      <<CAT_COLORS[IF i % 3 = 0 THEN stripe ELSE base]>>
                          \o lines[i + 1] \o <<RESET>>

\* tabby(orange, white) has rendered six lines: rows 0 and 3 in white, rows
\* 1, 2, 4, 5 in orange.
C8_Witness ==
    /\ Rendered
    /\ call.func = Func("_tabby_pattern", <<"orange", "white">>)
    /\ content = Block(6, 5, "full", FALSE)
    /\ LET outLines == split(result.out)
       IN  /\ \A i \in {1, 4} : Head(outLines[i]) = CAT_COLORS["white"]
           /\ \A i \in {2, 3, 5, 6} : Head(outLines[i]) = CAT_COLORS["orange"]

\* C9 as claimed: for tuxedo a non-whitespace character is white exactly in
\* the middle half of the rows and the middle third of the row's columns:
\* for T rows (T a multiple of 4) and a row of length L (L a multiple of 3),
\* the T/2 rows from T/4 and the L/3 columns from L/3.
C9_TuxedoMiddleHalfThird ==
    (Rendered /\ Kind = "_tuxedo_pattern") =>
        LET lines == split(content)
            ann == Annotations(result.out)
            T == Len(lines)
        IN  \A pos \in Positions(lines) :
                LET i == pos[1]
                    j == pos[2]
                    L == Len(lines[i + 1])
                IN  (T % 4 = 0 /\ L % 3 = 0 /\ CharAt(lines, pos) \notin StrWhitespace) =>
                        (CharAt(ann, pos) = <<CAT_COLORS["white"]>> <=>
                            /\ T \div 4 <= i /\ i < (3 * T) \div 4
                            /\ L \div 3 <= j /\ j < (2 * L) \div 3)

\* C9 as amended: for tuxedo a non-whitespace character at row i, column j of
\* a text of T rows, in a row of length L, is white exactly when
\* T div 4 < i < 3T div 4 and L div 3 < j < 2L div 3 (both bounds strict), and
\* black otherwise; so for T a multiple of 4 and L a multiple of 3 the white
\* region is the T/2 - 1 rows T/4 + 1 .. 3T/4 - 1 by the L/3 - 1 columns
\* L/3 + 1 .. 2L/3 - 1.  On 20 rows of 29 identical non-whitespace characters
\* the output has a white and a black character.
C9_TuxedoStrictMiddle ==
    (Rendered /\ Kind = "_tuxedo_pattern") =>
        LET lines == split(content)
            ann == Annotations(result.out)
            T == Len(lines)
        IN  /\ \A pos \in Positions(lines) :
                  LET i == pos[1]
                      j == pos[2]
                      L == Len(lines[i + 1])
                      white == /\ T \div 4 < i /\ i < (3 * T) \div 4
                               /\ L \div 3 < j /\ j < (2 * L) \div 3
                  IN  /\ CharAt(lines, pos) \notin StrWhitespace =>
                            CharAt(ann, pos) =
                                <<CAT_COLORS[IF white THEN "white" ELSE "black"]>>
                      /\ (T % 4 = 0 /\ L % 3 = 0) =>
                            (white <=> /\ i \in (T \div 4 + 1)..((3 * T) \div 4 - 1)
                                       /\ j \in (L \div 3 + 1)..((2 * L) \div 3 - 1))
            /\ content \in {Block(20, 29, "full", t) : t \in BOOLEAN} =>
                  /\ Contains(result.out, CAT_COLORS["white"])
                  /\ Contains(result.out, CAT_COLORS["black"])

\* tuxedo has rendered 20 lines of 29 letters, each ended by a newline, with a
\* white letter at row 6, column 10 and a black one at row 5, column 10.
C9_Witness ==
    /\ Rendered
    /\ Kind = "_tuxedo_pattern"
    /\ content = Block(20, 29, "full", TRUE)
    /\ Annotations(result.out)[7][11] = <<CAT_COLORS["white"]>>
    /\ Annotations(result.out)[6][11] = <<CAT_COLORS["black"]>>

\* The first heart column of the rows 4 to 8.
HeartMinColumn == (4 :> 28) @@ (5 :> 28) @@ (6 :> 28) @@ (7 :> 30) @@ (8 :> 32)

\* C10: for the heart-overlay pattern the blank-braille filler is emitted
\* uncoloured; every other character at row i, column j is pink_red exactly
\* when i is one of 4..8 and j >= the row's minimum column (28, 28, 28, 30,
\* 32), and forest_green otherwise.  Row 0 never contains pink_red, and each
\* of rows 4 to 8 contains pink_red whenever it has a non-filler character at
\* or beyond its minimum column.
C10_HeartOverlay ==
    (Rendered /\ Kind = "_jennycatto_pattern") =>
        LET lines == split(content)
            outLines == split(result.out)
            ann == Annotations(result.out)
            InHeart(pos) == pos[1] \in 4..8 /\ pos[2] >= HeartMinColumn[pos[1]]
        IN  /\ \A pos \in Positions(lines) :
                  CharAt(ann, pos) =
                      IF CharAt(lines, pos) = BlankBraille THEN <<>>
                      ELSE IF InHeart(pos) THEN <<CAT_COLORS["pink_red"]>>
                      ELSE <<CAT_COLORS["forest_green"]>>
            /\ ~Contains(outLines[1], CAT_COLORS["pink_red"])
            /\ \A i \in 4..8 :
                  (\E pos \in Positions(lines) :
                      pos[1] = i /\ InHeart(pos) /\ CharAt(lines, pos) # BlankBraille)
                  => Contains(outLines[i + 1], CAT_COLORS["pink_red"])

\* The heart-overlay pattern has rendered 9 rows of 34 columns: in row 8,
\* column 30 is green, the filler in column 31 is uncoloured and column 32 is
\* pink; in row 7 the filler in column 32, inside the heart, is uncoloured.
C10_Witness ==
    /\ Rendered
    /\ Kind = "_jennycatto_pattern"
    /\ content = Block(9, 34, "filler", FALSE)
    /\ Annotations(result.out)[9][31] = <<CAT_COLORS["forest_green"]>>
    /\ Annotations(result.out)[9][32] = <<>>
    /\ Annotations(result.out)[9][33] = <<CAT_COLORS["pink_red"]>>
    /\ Annotations(result.out)[8][33] = <<>>

\* C11: for iggy(back, chest), with relative_line = i / total_lines and
\* dist_from_center = |j - center|, every non-whitespace character with
\* relative_line < 0.08 gets the back colour; with relative_line in
\* [0.34, 0.54), [0.54, 0.72), [0.72, 0.90) and [0.90, 1.0) it gets the back
\* colour when dist_from_center > content_len * t for t = 0.25, 0.3, 0.4 and
\* 0.45 respectively, and the chest colour otherwise.
C11_IggyZones ==
    (Rendered /\ Kind = "_iggy_pattern") =>
        LET lines == split(content)
            ann == Annotations(result.out)
            T == Len(lines)
            back == call.func.args[1]
            chest == call.func.args[2]
        IN  \A pos \in Positions(lines) :
                LET i == pos[1]
                    line == lines[i + 1]
                    dist == DistFromCenter(line, pos[2])
                    Far(t) == dist * 100 > ContentLen(line) * t
                    Zone(lo, hi, t) ==
                        (lo * T <= 100 * i /\ 100 * i < hi * T) =>
                            CharAt(ann, pos) =
                                <<CAT_COLORS[IF Far(t) THEN back ELSE chest]>>
                IN  CharAt(lines, pos) \notin StrWhitespace =>
                        /\ 100 * i < 8 * T => CharAt(ann, pos) = <<CAT_COLORS[back]>>
                        /\ Zone(34, 54, 25)
                        /\ Zone(54, 72, 30)
                        /\ Zone(72, 90, 40)
                        /\ Zone(90, 100, 45)

\* iggy(orange, white) has rendered 20 rows of 29 letters (center 14): row 0
\* is orange in the middle; in row 11 (relative_line 0.55) column 6, at
\* distance 8 < 29 * 0.3, is white and column 5, at distance 9, is orange; in
\* row 7 (0.35) column 6, at distance 8 > 29 * 0.25, is orange.
C11_Witness ==
    /\ Rendered
    /\ call.func = Func("_iggy_pattern", <<"orange", "white">>)
    /\ content = Block(20, 29, "full", FALSE)
    /\ Annotations(result.out)[1][15] = <<CAT_COLORS["orange"]>>
    /\ Annotations(result.out)[12][7] = <<CAT_COLORS["white"]>>
    /\ Annotations(result.out)[12][6] = <<CAT_COLORS["orange"]>>
    /\ Annotations(result.out)[8][7] = <<CAT_COLORS["orange"]>>

\* The pattern function and the caption lines of each cat's for_... function.
CatPortrait ==
    [ iggy |-> [func |-> Func("_iggy_pattern", <<"black", "white">>),
                captions |-> <<"I miss the potamus.">>],
      lucy |-> [func |-> Func("_lucy_pattern", <<>>),
                captions |-> <<"The world's babiest.">>],
      magda |-> [func |-> Func("_solid_pattern", <<"black">>),
                 captions |-> <<"The moominkittycat would like food.  Please.">>],
      cassandra |-> [func |-> Func("_cassandra_pattern", <<>>),
                     captions |-> <<"The babiest brioche loaf you ever saw.">>],
      persephone |-> [func |-> Func("_persephone_pattern", <<>>),
                      captions |-> <<"Miss independent snugglemonster, Percypie herself.">>],
      jennycatto |-> [func |-> Func("_jennycatto_pattern", <<>>),
                      captions |-> << "For my love.",
                                      "The heart of the catto family.",
                                      "I hope we have a fantastic Valentines Day, and a fantastic 100 more Valentines days together." >>] ]

\* The cats whose flag is on the command line, by its name or its alias.
GivenCats ==
    {d \in DOMAIN OptionStrings :
        \E k \in 1..Len(call.argv) : call.argv[k] \in OptionStrings[d]}

\* The command line holds nothing but cat flags, each written in full.
OnlyCatFlags ==
    \A k \in 1..Len(call.argv) :
        \E d \in DOMAIN OptionStrings : call.argv[k] \in OptionStrings[d]

\* What the claim says of a run of main() for the cats given.
Dispatched(given) ==
    /\ given = {} =>
          /\ picked \in get_random_pattern
          /\ call.func = picked.func
          /\ result = Apply(picked.func, content)
          /\ stdout = (IF result.status = "ok" THEN <<result.out>> ELSE <<>>)
          /\ stderr = <<>>
    /\ \A d \in DOMAIN OptionStrings : given = {d} =>
          /\ picked = NoPick
          /\ call.func = CatPortrait[d].func
          /\ result = Apply(CatPortrait[d].func, content)
          /\ result.status = "ok"
          /\ stdout = <<result.out>> \o CatPortrait[d].captions
          /\ stderr = <<>>
          /\ exit_status = <<0>>
    /\ Cardinality(given) > 1 =>
          /\ picked = NoPick
          /\ result = NoResult
          /\ stdout = <<>>
          /\ stderr = <<"You cannot call multiple cats!  You must pick one cat flag only."
                          \o "\n">>
          /\ exit_status = <<2>>

\* C12 as claimed: command dispatch.  When no cat flag is given exactly the
\* random-pattern path runs; when exactly one cat flag is given exactly that
\* cat's portrait function runs, and nothing is drawn at random; when more
\* than one cat flag is given no art is rendered, the message "You cannot
\* call multiple cats!  You must pick one cat flag only." is written to the
\* error stream, and the exit status is 2.  A cat flag is one of the six
\* mutually exclusive flags, given by its name or its alias any number of
\* times.
C12_CommandDispatch ==
    (pc = "done" /\ call.op = "main") => Dispatched(GivenCats)

\* C12 as amended: the dispatch above holds of the command lines that hold
\* nothing but cat flags, each written in full.  With -h or --help, an
\* argument the parser does not know, an abbreviated option or an option
\* with a value on the command line, the parser can exit before main()
\* dispatches: without cat flags nothing is then drawn at random.
C12_DispatchOnCatFlags ==
    (pc = "done" /\ call.op = "main" /\ OnlyCatFlags) => Dispatched(GivenCats)

\* main, called with --moo and --percy, has written the message to the error
\* stream and exited with status 2 without rendering.
C12_Witness ==
    /\ pc = "done"
    /\ call.op = "main"
    /\ call.argv = <<"--moo", "--percy">>
    /\ stderr = <<MultipleCatsMessage>>
    /\ exit_status = <<2>>
    /\ stdout = <<>>
    /\ result = NoResult

\* Row i of a text of T rows has lo/100 <= relative_line < hi/100.
RelIn(i, T, lo, hi) == lo * T <= 100 * i /\ 100 * i < hi * T

\* The columns of row i that iggy(back, chest) has given the chest colour,
\* ann being the annotations of its output.
ChestColumns(ann, i) ==
    {j \in 0..(Len(ann[i + 1]) - 1) :
        /\ call.func.args[2] \in DOMAIN CAT_COLORS
        /\ ann[i + 1][j + 1] = <<CAT_COLORS[call.func.args[2]]>>}

\* C13 as claimed: for iggy the chest widens monotonically down the image:
\* for any two rows i1 < i2 with relative_line >= 0.08 and identical text,
\* every column that is chest-coloured in row i1 is chest-coloured in row i2.
C13_ChestWidensMonotonically ==
    (Rendered /\ Kind = "_iggy_pattern") =>
        LET lines == split(content)
            ann == Annotations(result.out)
            T == Len(lines)
        IN  \A i1, i2 \in 0..(T - 1) :
                ( /\ i1 < i2
                  /\ lines[i1 + 1] = lines[i2 + 1]
                  /\ RelIn(i1, T, 8, 100)
                  /\ RelIn(i2, T, 8, 100) ) =>
                    ChestColumns(ann, i1) \subseteq ChestColumns(ann, i2)

\* C13 as amended: for iggy and any two rows i1 < i2 with relative_line >=
\* 0.08 and identical text, every column that is chest-coloured in row i1 is
\* chest-coloured in row i2, unless row i1 is in the face zone (relative_line
\* in [0.22, 0.34), threshold 0.35) and row i2 in the upper or mid body
\* (relative_line in [0.34, 0.72), thresholds 0.25 and 0.3): there the chest
\* narrows, and every column chest-coloured in row i2 is chest-coloured in
\* row i1.
C13_ChestWidensButAtFace ==
    (Rendered /\ Kind = "_iggy_pattern") =>
        LET lines == split(content)
            ann == Annotations(result.out)
            T == Len(lines)
        IN  \A i1, i2 \in 0..(T - 1) :
                ( /\ i1 < i2
                  /\ lines[i1 + 1] = lines[i2 + 1]
                  /\ RelIn(i1, T, 8, 100)
                  /\ RelIn(i2, T, 8, 100) ) =>
                    IF RelIn(i1, T, 22, 34) /\ RelIn(i2, T, 34, 72)
                    THEN ChestColumns(ann, i2) \subseteq ChestColumns(ann, i1)
                    ELSE ChestColumns(ann, i1) \subseteq ChestColumns(ann, i2)

\* iggy(orange, white) has rendered 20 rows of 29 letters: column 4, at
\* distance 10 from the center, is white in the face row 5 and orange in the
\* upper-body row 7; column 5 is orange in the mid-body row 11 and white in
\* the leg row 15.
C13_Witness ==
    /\ Rendered
    /\ call.func = Func("_iggy_pattern", <<"orange", "white">>)
    /\ content = Block(20, 29, "full", FALSE)
    /\ LET ann == Annotations(result.out)
       IN  /\ 4 \in ChestColumns(ann, 5) \ ChestColumns(ann, 7)
           /\ 5 \in ChestColumns(ann, 15) \ ChestColumns(ann, 11)

\* C14: for colorpoint(body, points) the rows in the outer fifth at the top
\* and at the bottom are points-coloured and the inner three fifths
\* body-coloured: for T rows, T a multiple of 5, exactly the first T/5 rows
\* and the last T/5 rows are points-coloured and the other 3T/5 rows
\* body-coloured.
C14_ColorpointOuterFifths ==
    (Rendered /\ Kind = "_colorpoint_pattern") =>
        LET lines == split(content)
            outLines == split(result.out)
            T == Len(lines)
            body == call.func.args[1]
            points == call.func.args[2]
        IN  T % 5 = 0 =>
                \A i \in 0..(T - 1) :
                    outLines[i + 1] =
                        <<CAT_COLORS[IF i < T \div 5 \/ i >= T - T \div 5
                                     THEN points ELSE body]>>
                            \o lines[i + 1] \o <<RESET>>

\* C15: for calico a non-whitespace character at row i, column j is white
\* when j mod 11 < 4, orange when 4 <= j mod 11 < 7, and otherwise the patch
\* colour of its band of rows: white, orange or black for (i div 5) mod 3 =
\* 0, 1, 2.  So black appears only at columns with j mod 11 >= 7 in rows with
\* (i div 5) mod 3 = 2, and an input whose first 15 rows each begin with 8
\* non-whitespace characters shows all three colours.
C15_CalicoPatches ==
    (Rendered /\ Kind = "_calico_pattern") =>
        LET lines == split(content)
            ann == Annotations(result.out)
            Patch(i) == IF (i \div 5) % 3 = 0 THEN "white"
                        ELSE IF (i \div 5) % 3 = 1 THEN "orange"
                        ELSE "black"
            Wide == /\ Len(lines) >= 15
                    /\ \A i \in 1..15 :
                          /\ Len(lines[i]) >= 8
                          /\ \A j \in 1..8 : lines[i][j] \notin StrWhitespace
        IN  /\ \A pos \in Positions(lines) :
                  LET i == pos[1]
                      j == pos[2]
                  IN  /\ CharAt(lines, pos) \notin StrWhitespace =>
                            CharAt(ann, pos) =
                                <<CAT_COLORS[IF j % 11 < 4 THEN "white"
                                             ELSE IF j % 11 < 7 THEN "orange"
                                             ELSE Patch(i)]>>
                      /\ CharAt(ann, pos) = <<CAT_COLORS["black"]>> =>
                            j % 11 >= 7 /\ (i \div 5) % 3 = 2
            /\ Wide => \A c \in {"white", "orange", "black"} :
                          Contains(result.out, CAT_COLORS[c])

\* calico has rendered 16 rows of 12 letters: in column 7 row 4 is white, row
\* 5 orange and row 10 black; in row 10 column 3 is white and column 4 orange.
C15_Witness ==
    /\ Rendered
    /\ Kind = "_calico_pattern"
    /\ content = Block(16, 12, "full", FALSE)
    /\ LET ann == Annotations(result.out)
       IN  /\ ann[5][8] = <<CAT_COLORS["white"]>>
           /\ ann[6][8] = <<CAT_COLORS["orange"]>>
           /\ ann[11][8] = <<CAT_COLORS["black"]>>
           /\ ann[11][4] = <<CAT_COLORS["white"]>>
           /\ ann[11][5] = <<CAT_COLORS["orange"]>>

\* C16: for smoke(color) a non-whitespace character at column j gets the
\* lighter variant colour when j mod 4 = 0 and the base colour otherwise,
\* whatever its row; the lighter variant is dark_gray for black, light_gray
\* for gray, silver for blue_gray, and silver for any other base colour.
C16_SmokeColumns ==
    (Rendered /\ Kind = "_smoke_pattern") =>
        LET lines == split(content)
            ann == Annotations(result.out)
            base == call.func.args[1]
            lighter == CASE base = "black" -> "dark_gray"
                         [] base = "gray" -> "light_gray"
                         [] base = "blue_gray" -> "silver"
                         [] OTHER -> "silver"
        IN  \A pos \in Positions(lines) :
                CharAt(lines, pos) \notin StrWhitespace =>
                    CharAt(ann, pos) =
                        <<CAT_COLORS[IF pos[2] % 4 = 0 THEN lighter ELSE base]>>

\* smoke(orange) has rendered 6 rows of 5 letters: columns 0 and 4 are silver
\* and column 1 is orange, in the first row and in the last.
C16_Witness ==
    /\ Rendered
    /\ call.func = Func("_smoke_pattern", <<"orange">>)
    /\ content = Block(6, 5, "full", FALSE)
    /\ LET ann == Annotations(result.out)
       IN  \A i \in {1, 6} :
               /\ ann[i][1] = <<CAT_COLORS["silver"]>>
               /\ ann[i][5] = <<CAT_COLORS["silver"]>>
               /\ ann[i][2] = <<CAT_COLORS["orange"]>>

\* The positions of the text that the annotations ann give the colour c.
ColouredWith(lines, ann, c) ==
    {pos \in Positions(lines) : CharAt(ann, pos) = <<CAT_COLORS[c]>>}

\* Pairs of different colours to bind iggy to, next to the pair of the call.
OtherPairs == {<<"black", "white">>, <<"white", "orange">>, <<"cream", "chocolate">>}

\* C17: the silhouette of iggy does not depend on the bound colours: for
\* every input and every two pairs (a, b) and (c, d) of different colours of
\* the colour table,
\* the positions iggy(a, b) colours a are those iggy(c, d) colours c, and the
\* positions it colours b are those iggy(c, d) colours d; and the output of
\* iggy(a, b) contains no colour code other than those of a and b.
C17_SilhouetteIndependentOfColours ==
    (Rendered /\ Kind = "_iggy_pattern") =>
        LET lines == split(content)
            ann == Annotations(result.out)
            a == call.func.args[1]
            b == call.func.args[2]
        IN  /\ \A k \in 1..Len(result.out) :
                  IsColorCode(result.out[k]) =>
                      \E c \in {a, b} \cap DOMAIN CAT_COLORS :
                          result.out[k] = CAT_COLORS[c]
            /\ (a # b /\ {a, b} \subseteq DOMAIN CAT_COLORS) =>
                  \A cd \in OtherPairs :
                  \A out \in {_iggy_pattern(cd[1], cd[2], content).out} :
                  \A other \in {Annotations(out)} :
                      /\ ColouredWith(lines, ann, a) = ColouredWith(lines, other, cd[1])
                      /\ ColouredWith(lines, ann, b) = ColouredWith(lines, other, cd[2])

\* iggy(orange, white) has rendered 20 indented rows of 29 columns with an
\* orange and a white character in row 11, and no black.
C17_Witness ==
    /\ Rendered
    /\ call.func = Func("_iggy_pattern", <<"orange", "white">>)
    /\ content = Block(20, 29, "indent", TRUE)
    /\ LET lines == split(content)
           ann == Annotations(result.out)
       IN  /\ \E pos \in ColouredWith(lines, ann, "orange") : pos[1] = 11
           /\ \E pos \in ColouredWith(lines, ann, "white") : pos[1] = 11
           /\ ColouredWith(lines, ann, "black") = {}

\* A row that consists only of whitespace, or is empty.
OnlyWhitespace(line) == \A k \in 1..Len(line) : line[k] \in StrWhitespace

\* The text with every row of whitespace replaced by an empty row.
WithBlankRowsEmptied(text) ==
    LET lines == split(text)
    IN  join([i \in 1..Len(lines) |->
                IF OnlyWhitespace(lines[i]) THEN <<>> ELSE lines[i]])

\* C18: for iggy, lucy, cassandra and persephone a row that consists only of
\* whitespace, or is empty, is emitted unchanged, with no colour code and no
\* RESET; and it does not change how any other row is coloured: with the same
\* number of rows, the other rows are emitted the same when the rows of
\* whitespace are empty rows instead.
C18_BlankRowsUnchanged ==
    (Rendered /\ Kind \in ZoneKinds) =>
        LET lines == split(content)
            outLines == split(result.out)
        IN  /\ Len(outLines) = Len(lines)
            /\ \A i \in 1..Len(lines) :
                  OnlyWhitespace(lines[i]) => outLines[i] = lines[i]
            /\ \A other \in {Apply(call.func, WithBlankRowsEmptied(content))} :
               \A otherLines \in {split(other.out)} :
                  /\ other.status = "ok"
                  /\ Len(otherLines) = Len(lines)
                  /\ \A i \in 1..Len(lines) :
                        ~OnlyWhitespace(lines[i]) => otherLines[i] = outLines[i]

\* cassandra has rendered 20 rows of 29 columns in which rows 2, 6, 10, 14 and
\* 18 are spaces: row 2 is emitted as it is and row 3 is coloured.
C18_Witness ==
    /\ Rendered
    /\ Kind = "_cassandra_pattern"
    /\ content = Block(20, 29, "bands", FALSE)
    /\ LET outLines == split(result.out)
       IN  /\ outLines[3] = [j \in 1..29 |-> " "]
           /\ Len(outLines[4]) = 3 * 29
           /\ Head(outLines[4]) = CAT_COLORS["gray"]

\* C19: for cassandra a non-whitespace character is white exactly when it
\* lies in the bottom zone (relative_line >= 0.90) and dist_from_center <
\* content_len * 0.15, so white is emitted in no other zone; and the stripe
\* signal of all zones is is_stripe_line = (i mod 4) < 2: a character is
\* dark_gray or light_gray only on a stripe line; with relative_line < 0.12
\* it is dark_gray on a stripe line and gray on the others, as it is at the
\* outer edge (dist_from_center > content_len * 0.4) up to 0.75; from 0.75
\* to 0.90 it is dark_gray on a stripe line and silver on the others; and
\* from 0.90, when not white, gray on a stripe line and silver on the others.
C19_CassandraWhiteAndStripes ==
    (Rendered /\ Kind = "_cassandra_pattern") =>
        LET lines == split(content)
            ann == Annotations(result.out)
            T == Len(lines)
        IN  \A pos \in Positions(lines) :
                LET i == pos[1]
                    line == lines[i + 1]
                    dist == DistFromCenter(line, pos[2])
                    cl == ContentLen(line)
                    stripe == i % 4 < 2
                    white == 100 * i >= 90 * T /\ dist * 100 < cl * 15
                    Is(c) == CharAt(ann, pos) = <<CAT_COLORS[c]>>
                IN  CharAt(lines, pos) \notin StrWhitespace =>
                        /\ Is("white") <=> white
                        /\ (Is("dark_gray") \/ Is("light_gray")) => stripe
                        /\ (RelIn(i, T, 0, 12) \/ (RelIn(i, T, 12, 75) /\ dist * 100 > cl * 40))
                              => Is(IF stripe THEN "dark_gray" ELSE "gray")
                        /\ RelIn(i, T, 75, 90) =>
                              Is(IF stripe THEN "dark_gray" ELSE "silver")
                        /\ (RelIn(i, T, 90, 100) /\ ~white) =>
                              Is(IF stripe THEN "gray" ELSE "silver")

\* cassandra has rendered 20 rows of 29 letters (center 14): in row 18
\* (relative_line 0.9) column 11, at distance 3, is white and column 9, at
\* distance 5, is silver; in the middle column rows 0 and 17, stripe lines,
\* are dark_gray, row 2 is gray and row 15 silver.
C19_Witness ==
    /\ Rendered
    /\ Kind = "_cassandra_pattern"
    /\ content = Block(20, 29, "full", FALSE)
    /\ LET ann == Annotations(result.out)
       IN  /\ ann[19][12] = <<CAT_COLORS["white"]>>
           /\ ann[19][10] = <<CAT_COLORS["silver"]>>
           /\ ann[18][15] = <<CAT_COLORS["dark_gray"]>>
           /\ ann[16][15] = <<CAT_COLORS["silver"]>>
           /\ ann[1][15] = <<CAT_COLORS["dark_gray"]>>
           /\ ann[3][15] = <<CAT_COLORS["gray"]>>

LucyPalette == {"chocolate", "brown", "ginger", "golden", "orange"}

PersephonePalette == {"dark_gray", "gray", "silver", "light_gray", "white"}

\* The colour codes in a rendered text.
ColorCodesIn(out) == {out[k] : k \in {n \in 1..Len(out) : IsColorCode(out[n])}}

\* C20: for every input lucy emits only the colour codes of chocolate, brown,
\* ginger, golden and orange, and persephone only those of dark_gray, gray,
\* silver, light_gray and white; on 40 rows of 29 identical non-whitespace
\* characters persephone emits all five of its colours.
C20_PaletteClosure ==
    /\ (Rendered /\ Kind = "_lucy_pattern") =>
          ColorCodesIn(result.out) \subseteq {CAT_COLORS[c] : c \in LucyPalette}
    /\ (Rendered /\ Kind = "_persephone_pattern") =>
          /\ ColorCodesIn(result.out) \subseteq {CAT_COLORS[c] : c \in PersephonePalette}
          /\ content = Block(40, 29, "full", FALSE) =>
                ColorCodesIn(result.out) = {CAT_COLORS[c] : c \in PersephonePalette}

\* persephone has rendered 40 rows of 29 letters: row 0 has dark_gray at the
\* edge and gray in the middle, row 20 has light_gray at distance 8 and white
\* in the middle, and row 39 has silver at the edge.
C20_Witness ==
    /\ Rendered
    /\ Kind = "_persephone_pattern"
    /\ content = Block(40, 29, "full", FALSE)
    /\ LET ann == Annotations(result.out)
       IN  /\ ann[1][1] = <<CAT_COLORS["dark_gray"]>>
           /\ ann[1][15] = <<CAT_COLORS["gray"]>>
           /\ ann[21][7] = <<CAT_COLORS["light_gray"]>>
           /\ ann[21][15] = <<CAT_COLORS["white"]>>
           /\ ann[40][1] = <<CAT_COLORS["silver"]>>

\* The colour codes and RESETs of a rendered text, in the order emitted.
EscapesIn(out) == SelectSeq(out, IsEscape)

\* C21: in the output of every pattern function, for every input without
\* escape sequences, colour codes and RESETs strictly alternate, starting
\* with a colour code and ending with a RESET: no colour code is emitted
\* while another is active, no RESET is emitted without an open colour code,
\* and after the last character the terminal is back in the reset state.
C21_CodesAndResetsAlternate ==
    (Rendered /\ EscapesIn(content) = <<>>) =>
        \A codes \in {EscapesIn(result.out)} :
            /\ Len(codes) % 2 = 0
            /\ \A k \in 1..Len(codes) :
                  IF k % 2 = 1 THEN IsColorCode(codes[k]) ELSE codes[k] = RESET

\* tabby(orange, white) has rendered 4 lines of 5 letters: white, RESET,
\* orange, RESET, orange, RESET, white, RESET.
C21_Witness ==
    /\ Rendered
    /\ call.func = Func("_tabby_pattern", <<"orange", "white">>)
    /\ content = Block(4, 5, "full", FALSE)
    /\ EscapesIn(result.out) =
          << CAT_COLORS["white"], RESET, CAT_COLORS["orange"], RESET,
             CAT_COLORS["orange"], RESET, CAT_COLORS["white"], RESET >>

====
